---- MODULE Spec2Model ----
(***************************************************************************)
(* A model of the taito skill installer: ${VAR} interpolation, variable    *)
(* resolution (promptForVariables / getDefaultValues), template rendering  *)
(* (renderSkill) and the add command's control flow.                       *)
(*                                                                         *)
(* Strings are sequences of one-character strings, so that scanning,       *)
(* trimming and joining are computed character by character.               *)
(***************************************************************************)
EXTENDS Integers, Sequences, FiniteSets, TLC

VARIABLES
  \* --- interpolate / interpolateString applied to one input -------------
  itemplate,   \* the template string handed to interpolate
  ivalues,     \* the VariableValues object handed to interpolate
  iwhich,      \* which of the two copies is called: "interpolate" | "interpolateString"
  iresult,     \* the returned string
  ipc          \* "idle" | "ready" | "done"

interpVars == <<itemplate, ivalues, iwhich, iresult, ipc>>

VARIABLES
  \* --- one resolution: promptForVariables or getDefaultValues ------------
  rconfig,     \* config.variables in Object.entries order (a sequence of Variable)
  rpreset,     \* [given |-> is presetValues passed, obj |-> the preset object]
  rmode,       \* "prompt" (promptForVariables) | "defaults" (getDefaultValues)
  ridx,        \* index of the entry the for-loop handles next
  rvalues,     \* the local `values` object
  cache,       \* sessionVariableCache
  prompted,    \* the promptForVariable calls made so far, in order
  rskill,      \* how many skills of the session were resolved before this one
  rpc          \* "idle" | "running" | "returned" | "exit0"

resolveVars == <<rconfig, rpreset, rmode, ridx, rvalues, cache, prompted, rskill, rpc>>

VARIABLES
  \* --- one run of addCommand -------------------------------------------
  aopts,        \* AddOptions: [config, dryRun: BOOLEAN, agentMode]
  asource,      \* what parseSkillSource makes of the source: "github" | "local" | "invalid"
  apc,          \* position in addCommand
  tempDir,      \* the directory mkdtempSync creates: "none" | "exists" | "removed"
  shouldCleanup,
  discovered,   \* discoveredSkills
  toInstall,    \* skillsToInstall
  cur,          \* index of the bundle installSingleSkill is working on
  stage,        \* position in installSingleSkill
  promptsLeft,  \* variables promptForVariables has still to ask for
  thrown,       \* an exception is propagating
  outDirs,      \* per skill name, what is at its output directory
  ledger,       \* metadata.skills
  exitCode,     \* the process's exit status "0" | "1", "none" while it runs
  cancelledAt,  \* the prompt the operator cancelled at, "none" if none
  outcome,      \* per index of toInstall, how its installSingleSkill ended
  rendered,     \* indexes of toInstall whose renderSkill/copyStandardSkill returned
  cacheAtEntry, \* sessionVariableCache as it was when addCommand was called
  asked,        \* the prompts shown to the operator so far, in order
  avalues,      \* the local `values` of installSingleSkill
  calls,        \* the calls of renderSkill / copyStandardSkill that returned, in order
  confirmed,    \* indexes of toInstall whose overwrite confirmation was answered yes
  deleted,      \* the directories rmSync was called on
  \* --- one call of renderSkill --------------------------------------------
  skillDir,     \* the files of the skill directory, as paths relative to it
  listing,      \* the same files in the order readdirSync yields them
  dryRun,
  outputDir,    \* what each path under the output directory holds
  templateTargets,
  renderedFiles,
  pending,      \* files the running for-loop has still to visit
  renderPc,     \* position in renderSkill / renderWithDefaults
  earlier       \* what the completed runs of renderWithDefaults returned and left

addVars == <<aopts, asource, apc, tempDir, shouldCleanup, discovered, toInstall, cur,
             stage, promptsLeft, thrown, outDirs, ledger, exitCode, cancelledAt,
             outcome, rendered, cacheAtEntry, asked, avalues, calls, confirmed, deleted>>

renderVars == <<skillDir, listing, dryRun, outputDir, templateTargets, renderedFiles, pending,
                renderPc, earlier>>

VARIABLES
  \* --- one call of parseSkillConfig ---------------------------------------
  pdoc,         \* the parsed TOML document: [meta, variables]
  pidx,         \* index of the entry parseVariables handles next
  presult,      \* the Variables produced so far, in order
  perror,       \* the Error thrown, NoError while none
  ppc           \* position in parseSkillConfig

parseVars == <<pdoc, pidx, presult, perror, ppc>>

VARIABLES
  marked,   \* the directories of the tree that directly contain SKILL.md, as paths from repoDir
  visiting,   \* the directories traverseDirectory has still to be called on, next first
  dskills,   \* the DiscoveredSkill paths pushed so far
  dpc   \* position in discoverSkills

discoverVars == <<marked, visiting, dskills, dpc>>

VARIABLES
  detectedAgents,   \* the agents detectAllAgents finds in the workspace
  entries,   \* per agent, whether its ledger has an entry named skillName
  installedDirs,   \* per agent, whether the skill directory exists
  toRemove,   \* the agents removeSingleSkill has still to be called for
  selected,   \* the answer to the p.select prompt: "none" | "cancel" | "all" | "one"
  confirm,   \* the answer to the p.confirm prompt: "none" | "cancel" | "no" | "yes"
  rmpc   \* position in removeCommand

removeVars == <<detectedAgents, entries, installedDirs, toRemove, selected, confirm, rmpc>>

VARIABLES
  metadataFile,   \* the metadata file: [exists, skills]
  writes,   \* how many times writeMetadata has run
  lastCall,   \* the last call made: [fn, name, found, returned]
  ncalls   \* how many calls were made

ledgerVars == <<metadataFile, writes, lastCall, ncalls>>

VARIABLES
  schema,   \* the skill configuration the helper reads (variables, in order)
  inferred,   \* what inferValueForVariable returns for each variable
  answers,   \* the helper's answers object
  answersFile,   \* the lines of answers.toml, once written
  installed,   \* the values an install with --config answers.toml resolves
  infidx,   \* main's loop index into order
  infpc   \* "idle", "inferring", "written", "installed"

inferVars == <<schema, inferred, answers, answersFile, installed, infidx, infpc>>

vars == <<interpVars, resolveVars, addVars, renderVars, parseVars, discoverVars, removeVars, ledgerVars, inferVars>>

\* The variables each specification leaves alone.
interpOthers == <<inferVars, ledgerVars, removeVars, discoverVars, parseVars, resolveVars, addVars, renderVars>>
resolveOthers == <<inferVars, ledgerVars, removeVars, discoverVars, parseVars, interpVars, addVars, renderVars, rskill>>
addOthers == <<inferVars, ledgerVars, removeVars, discoverVars, parseVars, interpVars, rconfig, rpreset, rmode, ridx, rvalues, prompted, rskill, rpc,
               renderVars, cacheAtEntry>>
renderOthers == <<inferVars, ledgerVars, removeVars, discoverVars, parseVars, interpVars, resolveVars, addVars, listing, earlier>>
buildOthers == <<inferVars, ledgerVars, removeVars, discoverVars, parseVars, interpVars, resolveVars, addVars, dryRun, templateTargets>>
parseOthers == <<inferVars, ledgerVars, removeVars, discoverVars, interpVars, resolveVars, addVars, renderVars>>
discoverOthers == <<inferVars, ledgerVars, removeVars, interpVars, resolveVars, addVars, renderVars, parseVars>>
removeOthers == <<inferVars, ledgerVars, interpVars, resolveVars, addVars, renderVars, parseVars, discoverVars>>
ledgerOthers == <<inferVars, interpVars, resolveVars, addVars, renderVars, parseVars, discoverVars, removeVars>>
inferOthers == <<interpVars, resolveVars, addVars, renderVars, parseVars, discoverVars, removeVars, ledgerVars>>

(***************************************************************************)
(* Values of type string | boolean | string[] (VariableValues), plus the   *)
(* two results a JavaScript property read can have besides those:          *)
(* undefined, and a member inherited from Object.prototype.                *)
(***************************************************************************)
StrV(s)  == [t |-> "string",    s |-> s,    b |-> FALSE, a |-> <<>>]
BoolV(b) == [t |-> "boolean",   s |-> <<>>, b |-> b,     a |-> <<>>]
ArrV(a)  == [t |-> "array",     s |-> <<>>, b |-> FALSE, a |-> a]
FunV(n)  == [t |-> "function",  s |-> n,    b |-> FALSE, a |-> <<>>]
Undefined == [t |-> "undefined", s |-> <<>>, b |-> FALSE, a |-> <<>>]

EmptyObject == [k \in {} |-> Undefined]

S_constructor == <<"c","o","n","s","t","r","u","c","t","o","r">>
S_toString    == <<"t","o","S","t","r","i","n","g">>
S_valueOf     == <<"v","a","l","u","e","O","f">>

\* Function-valued members every object literal `{}` inherits.
ObjectPrototypeNames == {S_constructor, S_toString, S_valueOf}

\* obj[name] on an object created by `{}`: own property, else inherited
\* member, else undefined.
Get(obj, name) ==
  IF name \in DOMAIN obj THEN obj[name]
  ELSE IF name \in ObjectPrototypeNames THEN FunV(name)
  ELSE Undefined

\* `name in obj` on an object created by `{}`.
HasKey(obj, name) == name \in DOMAIN obj \/ name \in ObjectPrototypeNames

\* obj[name] = value
Put(obj, name, value) ==
  [k \in DOMAIN obj \cup {name} |-> IF k = name THEN value ELSE obj[k]]

\* Array.prototype.join(', ')
RECURSIVE JoinComma(_)
JoinComma(a) ==
  IF a = <<>> THEN <<>>
  ELSE IF Len(a) = 1 THEN a[1]
  ELSE a[1] \o <<",", " ">> \o JoinComma(Tail(a))

\* String(value)
StringOf(value) ==
  CASE value.t = "string"   -> value.s
    [] value.t = "boolean"  -> IF value.b THEN <<"t","r","u","e">>
                                          ELSE <<"f","a","l","s","e">>
    [] value.t = "array"    -> JoinComma(value.a)
    [] value.t = "function" ->
         <<"f","u","n","c","t","i","o","n"," ">>
           \o (IF value.s = S_constructor THEN <<"O","b","j","e","c","t">> ELSE value.s)
           \o <<"(",")"," ","{"," ","[","n","a","t","i","v","e"," ","c","o","d","e","]"," ","}">>
    [] OTHER -> <<"u","n","d","e","f","i","n","e","d">>

\* String.prototype.trim()
IsWhitespace(c) == c = " "
RECURSIVE TrimStart(_)
TrimStart(s) == IF s # <<>> /\ IsWhitespace(Head(s)) THEN TrimStart(Tail(s)) ELSE s
RECURSIVE TrimEnd(_)
TrimEnd(s) ==
  IF s # <<>> /\ IsWhitespace(s[Len(s)]) THEN TrimEnd(SubSeq(s, 1, Len(s) - 1)) ELSE s
Trim(s) == TrimEnd(TrimStart(s))

\* /\$\{([^}]+)\}/ anchored at position i: the position of the closing brace
\* of the match that starts at i, or 0 when none starts there.
MatchEnd(s, i) ==
  IF /\ i + 3 <= Len(s)
     /\ s[i] = "$"
     /\ s[i + 1] = "{"
     /\ s[i + 2] # "}"
     /\ \E j \in (i + 3)..Len(s) : s[j] = "}"
  THEN CHOOSE j \in (i + 3)..Len(s) :
         s[j] = "}" /\ \A k \in (i + 3)..(j - 1) : s[k] # "}"
  ELSE 0

\* The replacer callback (match, varName) => ... of interpolate.
Replacer(match, varName, values) ==
  LET value == Get(values, Trim(varName)) IN
    IF value.t = "undefined" THEN match      \* keep original if not found
    ELSE IF value.t = "array" THEN JoinComma(value.a)
    ELSE StringOf(value)

\* template.replace(/\$\{([^}]+)\}/g, replacer), scanning from position i.
RECURSIVE ReplaceFrom(_, _, _)
ReplaceFrom(s, i, values) ==
  IF i > Len(s) THEN <<>>
  ELSE LET j == MatchEnd(s, i) IN
         IF j = 0 THEN <<s[i]>> \o ReplaceFrom(s, i + 1, values)
         ELSE Replacer(SubSeq(s, i, j), SubSeq(s, i + 2, j - 1), values)
                \o ReplaceFrom(s, j + 1, values)

interpolate(template, values) == ReplaceFrom(template, 1, values)

interpolateString(template, values) == ReplaceFrom(template, 1, values)

(***************************************************************************)
(* Specification SpecInterp: interpolate / interpolateString applied to    *)
(* every template over a small alphabet (and some longer ones) and to a    *)
(* few value objects.                                                      *)
(***************************************************************************)
MaxTemplateLen == 5

Alphabet == {"$", "{", "}", " ", "A"}

K_A == <<"A">>
K_B == <<"B">>
S_pnpm == <<"p","n","p","m">>
S_tokB == <<"$","{","B","}">>

LongTemplates ==
  { <<"$","{"," ","A"," ","}">>,                       \* "${ A }"
    <<"x","$","{","A","}","y","$","{","A","}">>,       \* "x${A}y${A}"
    <<"$","{","B","}","$","{","A","}">>,               \* "${B}${A}"
    <<"$","{","H","O","M","E","}","/","$","{","A","}">>,
    <<"$","{">> \o S_valueOf \o <<"}">>,               \* "${valueOf}"
    <<"$","{">> \o S_constructor \o <<"}">>,
    <<"$","{","A","$","{","B","}","}">> }              \* "${A${B}}"

Templates ==
  UNION { [1..n -> Alphabet] : n \in 0..MaxTemplateLen } \cup LongTemplates

ValueObjects ==
  { EmptyObject,
    (K_A :> StrV(S_pnpm)),
    (K_A :> ArrV(<< <<"e","n">>, <<"e","s">> >>)),
    (K_A :> BoolV(TRUE)),
    (K_A :> StrV(S_tokB)) @@ (K_B :> StrV(<<"z">>)) }

ResolveIdle ==
  /\ rconfig = <<>>
  /\ rpreset = [given |-> FALSE, obj |-> EmptyObject]
  /\ rmode = "none"
  /\ ridx = 0
  /\ rvalues = EmptyObject
  /\ cache = EmptyObject
  /\ prompted = <<>>
  /\ rskill = 0
  /\ rpc = "idle"

AddIdle ==
  /\ aopts = [config |-> FALSE, dryRun |-> FALSE, agentMode |-> "none"]
  /\ asource = "none"
  /\ apc = "idle"
  /\ tempDir = "none"
  /\ shouldCleanup = FALSE
  /\ discovered = <<>>
  /\ toInstall = <<>>
  /\ cur = 0
  /\ stage = "none"
  /\ promptsLeft = 0
  /\ thrown = FALSE
  /\ outDirs = <<>>
  /\ ledger = <<>>
  /\ exitCode = "none"
  /\ cancelledAt = "none"
  /\ outcome = <<>>
  /\ rendered = {}
  /\ cacheAtEntry = EmptyObject
  /\ asked = <<>>
  /\ avalues = EmptyObject
  /\ calls = <<>>
  /\ confirmed = {}
  /\ deleted = {}

ParseIdle ==
  /\ pdoc = [meta |-> FALSE, variables |-> <<>>]
  /\ pidx = 0
  /\ presult = <<>>
  /\ perror = [kind |-> "none", variable |-> <<>>, field |-> "none", index |-> 0]
  /\ ppc = "idle"

DiscoverIdle ==
  /\ marked = {}
  /\ visiting = <<>>
  /\ dskills = <<>>
  /\ dpc = "idle"

RemoveIdle ==
  /\ detectedAgents = {}
  /\ entries = <<>>
  /\ installedDirs = <<>>
  /\ toRemove = {}
  /\ selected = "none"
  /\ confirm = "none"
  /\ rmpc = "idle"

LedgerIdle ==
  /\ metadataFile = [exists |-> FALSE, skills |-> <<>>]
  /\ writes = 0
  /\ lastCall = [fn |-> "none", name |-> "", found |-> FALSE, returned |-> FALSE]
  /\ ncalls = 0

InferIdle ==
  /\ schema = <<>>
  /\ inferred = EmptyObject
  /\ answers = EmptyObject
  /\ answersFile = <<>>
  /\ installed = EmptyObject
  /\ infidx = 1
  /\ infpc = "idle"

RenderIdle ==
  /\ skillDir = {}
  /\ listing = <<>>
  /\ dryRun = FALSE
  /\ outputDir = <<>>
  /\ templateTargets = {}
  /\ renderedFiles = <<>>
  /\ pending = <<>>
  /\ renderPc = "idle"
  /\ earlier = <<>>

InitInterp ==
  /\ InferIdle
  /\ LedgerIdle
  /\ RemoveIdle
  /\ DiscoverIdle
  /\ ParseIdle
  /\ ResolveIdle
  /\ AddIdle
  /\ RenderIdle
  /\ itemplate \in Templates
  /\ ivalues \in ValueObjects
  /\ iwhich = "none"
  /\ iresult = <<>>
  /\ ipc = "ready"

CallInterpolate ==
  /\ ipc = "ready"
  /\ iwhich' = "interpolate"
  /\ iresult' = interpolate(itemplate, ivalues)
  /\ ipc' = "done"
  /\ UNCHANGED <<itemplate, ivalues>>
  /\ UNCHANGED interpOthers

CallInterpolateString ==
  /\ ipc = "ready"
  /\ iwhich' = "interpolateString"
  /\ iresult' = interpolateString(itemplate, ivalues)
  /\ ipc' = "done"
  /\ UNCHANGED <<itemplate, ivalues>>
  /\ UNCHANGED interpOthers

NextInterp == CallInterpolate \/ CallInterpolateString

SpecInterp == InitInterp /\ [][NextInterp]_vars

(***************************************************************************)
(* The interpolation rule as stated: tokens are the leftmost-first,        *)
(* non-overlapping ${...} spans with a non-empty brace-free inside.        *)
(***************************************************************************)
IsSpan(s, i, j) ==
  /\ 1 <= i /\ i + 3 <= j /\ j <= Len(s)
  /\ s[i] = "$" /\ s[i + 1] = "{" /\ s[j] = "}"
  /\ \A k \in (i + 2)..(j - 1) : s[k] # "}"

\* A token is a span that no span starting further left shares its end with.
IsToken(s, i, j) == IsSpan(s, i, j) /\ ~ \E i0 \in 1..(i - 1) : IsSpan(s, i0, j)

InsideToken(s, p) == \E i \in 1..p, j \in p..Len(s) : IsToken(s, i, j) /\ i < p

StatedReplacement(s, i, j, values) ==
  LET name == Trim(SubSeq(s, i + 2, j - 1)) IN
    IF name \in DOMAIN values
    THEN (IF values[name].t = "array" THEN JoinComma(values[name].a)
          ELSE StringOf(values[name]))
    ELSE SubSeq(s, i, j)

StatedPiece(s, p, values) ==
  IF \E j \in p..Len(s) : IsToken(s, p, j)
  THEN StatedReplacement(s, p, CHOOSE j \in p..Len(s) : IsToken(s, p, j), values)
  ELSE IF InsideToken(s, p) THEN <<>>
  ELSE <<s[p]>>

RECURSIVE StatedFrom(_, _, _)
StatedFrom(s, p, values) ==
  IF p > Len(s) THEN <<>> ELSE StatedPiece(s, p, values) \o StatedFrom(s, p + 1, values)

StatedInterpolation(s, values) == StatedFrom(s, 1, values)

\* C9: every ${...} token whose trimmed name is a key of the mapping is
\* replaced by the value's string form (arrays joined with ", "), every other
\* token is left as it is, and the text outside tokens is unchanged.
C9_InterpolationAsStated ==
  ipc = "done" => iresult = StatedInterpolation(itemplate, ivalues)

\* The same rule restricted to token names that are not members of
\* Object.prototype.
C9_HoldsForOwnNames ==
  (ipc = "done" /\ itemplate \in Templates \ LongTemplates)
    => iresult = StatedInterpolation(itemplate, ivalues)

C9_WitnessReplaced ==
  /\ ipc = "done"
  /\ itemplate = <<"$","{"," ","A"," ","}">>
  /\ ivalues = (K_A :> ArrV(<< <<"e","n">>, <<"e","s">> >>))
  /\ iresult = <<"e","n",","," ","e","s">>

(***************************************************************************)
(* Variable resolution: promptForVariables (prompts.ts) and                *)
(* getDefaultValues (config.ts).                                           *)
(***************************************************************************)
NoValue == Undefined

Opt(value, label) == [value |-> value, label |-> label]

\* A Variable of the schema (types.ts): `default` is NoValue when the
\* configuration document declares none.
\* StringVariable.validate: a regex of the form ^[...]+$, kept as the set of
\* characters its class admits; not given when the document declares none.
NoPattern == [given |-> FALSE, chars |-> {}]
Pattern(chars) == [given |-> TRUE, chars |-> chars]

\* new RegExp(variable.validate).test(value)
RegexTest(pattern, value) ==
  Len(value) > 0 /\ \A i \in DOMAIN value : value[i] \in pattern.chars

Var(name, type, prompt, default, options) ==
  [name |-> name, type |-> type, prompt |-> prompt,
   default |-> default, options |-> options, validate |-> NoPattern]

Validated(variable, pattern) == [variable EXCEPT !.validate = pattern]

\* interpolateVariable(variable, values)
interpolateVariable(variable, values) ==
  LET interpolatedPrompt == interpolate(variable.prompt, values) IN
    CASE variable.type \in {"string", "choice"} ->
           [variable EXCEPT
              !.prompt = interpolatedPrompt,
              !.default = IF variable.default.t # "undefined"
                          THEN StrV(interpolate(variable.default.s, values))
                          ELSE Undefined,
              !.options = [i \in DOMAIN variable.options |->
                             Opt(variable.options[i].value,
                                 interpolate(variable.options[i].label, values))]]
      [] OTHER -> [variable EXCEPT !.prompt = interpolatedPrompt]

\* a ?? b
Coalesce(a, b) == IF a.t # "undefined" THEN a ELSE b

\* String.prototype.split(',')
RECURSIVE SplitComma(_, _)
SplitComma(s, acc) ==
  IF s = <<>> THEN <<acc>>
  ELSE IF Head(s) = "," THEN <<acc>> \o SplitComma(Tail(s), <<>>)
  ELSE SplitComma(Tail(s), Append(acc, Head(s)))

\* .map((s) => s.trim()).filter((s) => s.length > 0)
RECURSIVE TrimAndDropEmpty(_)
TrimAndDropEmpty(parts) ==
  IF parts = <<>> THEN <<>>
  ELSE LET t == Trim(Head(parts)) IN
         (IF Len(t) > 0 THEN <<t>> ELSE <<>>) \o TrimAndDropEmpty(Tail(parts))

\* promptArray's parse of the text the operator entered
ParseCommaSeparated(text) == TrimAndDropEmpty(SplitComma(text, <<>>))

\* What the operator may type at a text prompt.
TypedTexts == { <<"t">>, <<"T","!">> }
TypedLists == { <<"e","n",","," ","e","s"," ",","," "," ","f","r">>,   \* "en, es ,  fr"
                <<"e","n",",">> }                                     \* "en,"

\* The values promptForVariable can return (other than the cancel symbol):
\* promptString / promptChoice / promptBoolean / promptArray.
PromptResults(variable, cachedValue) ==
  CASE variable.type = "string" ->
         LET defaultValue == Coalesce(cachedValue, variable.default) IN
           \* p.text asks again while the validate callback returns a message
           {StrV(t) : t \in {x \in TypedTexts : variable.validate.given
                                                  => RegexTest(variable.validate, x)}}
             \cup (IF defaultValue.t # "undefined" THEN {defaultValue} ELSE {})
    [] variable.type = "choice" ->
         {StrV(variable.options[i].value) : i \in DOMAIN variable.options}
    [] variable.type = "boolean" -> {BoolV(TRUE), BoolV(FALSE)}
    [] OTHER ->
         LET defaultArray == Coalesce(cachedValue, variable.default)
             defaultStr == IF defaultArray.t # "undefined"
                           THEN JoinComma(defaultArray.a) ELSE <<>>
         IN {ArrV(ParseCommaSeparated(t)) : t \in TypedLists \cup {defaultStr}}

\* A plausible slip: the schema default wins over the cached answer.
InitialValueDefaultFirst(variable, cachedValue) ==
  LET d == Coalesce(variable.default, cachedValue) IN
    IF variable.type = "boolean" THEN Coalesce(d, BoolV(FALSE)) ELSE d

\* The suggested initial value a prompt shows: cachedValue ?? variable.default
\* (?? false for a boolean).
InitialValue(variable, cachedValue) ==
  LET d == Coalesce(cachedValue, variable.default) IN
    IF variable.type = "boolean" THEN Coalesce(d, BoolV(FALSE)) ELSE d

UsesPreset(preset, key) == preset.given /\ HasKey(preset.obj, key)

\* A plausible slip: the preset value is interpolated like a default.
PresetValueInterpolated(preset, key) ==
  LET v == Get(preset.obj, key) IN
    IF v.t = "string" THEN StrV(interpolate(v.s, rvalues)) ELSE v

\* values[key] = presetValues[key]
PresetValueFor(preset, key) == Get(preset.obj, key)

\* --- promptForVariables: one iteration of `for (const [key, variable] of entries)`
PromptUsePreset ==
  /\ rpc = "running" /\ rmode = "prompt" /\ ridx <= Len(rconfig)
  /\ LET key == rconfig[ridx].name IN
       /\ UsesPreset(rpreset, key)
       /\ rvalues' = Put(rvalues, key, PresetValueFor(rpreset, key))
       /\ cache' = Put(cache, key, PresetValueFor(rpreset, key))
  /\ ridx' = ridx + 1
  /\ UNCHANGED <<rconfig, rpreset, rmode, prompted, rpc>>
  /\ UNCHANGED resolveOthers

PromptAnswered ==
  /\ rpc = "running" /\ rmode = "prompt" /\ ridx <= Len(rconfig)
  /\ LET key == rconfig[ridx].name
         interpolatedVariable == interpolateVariable(rconfig[ridx], rvalues)
         cachedValue == Get(cache, key)
     IN /\ ~UsesPreset(rpreset, key)
        /\ \E value \in PromptResults(interpolatedVariable, cachedValue) :
             /\ rvalues' = Put(rvalues, key, value)
             /\ cache' = Put(cache, key, value)
        /\ prompted' = Append(prompted,
             [key |-> key, variable |-> interpolatedVariable,
              initial |-> InitialValue(interpolatedVariable, cachedValue)])
  /\ ridx' = ridx + 1
  /\ UNCHANGED <<rconfig, rpreset, rmode, rpc>>
  /\ UNCHANGED resolveOthers

\* p.isCancel(value): p.cancel('Installation cancelled.'); process.exit(0)
PromptCancelled ==
  /\ rpc = "running" /\ rmode = "prompt" /\ ridx <= Len(rconfig)
  /\ LET key == rconfig[ridx].name
         interpolatedVariable == interpolateVariable(rconfig[ridx], rvalues)
         cachedValue == Get(cache, key)
     IN /\ ~UsesPreset(rpreset, key)
        /\ prompted' = Append(prompted,
             [key |-> key, variable |-> interpolatedVariable,
              initial |-> InitialValue(interpolatedVariable, cachedValue)])
  /\ rpc' = "exit0"
  /\ UNCHANGED <<rconfig, rpreset, rmode, ridx, rvalues, cache>>
  /\ UNCHANGED resolveOthers

PromptReturn ==
  /\ rpc = "running" /\ rmode = "prompt" /\ ridx > Len(rconfig)
  /\ rpc' = "returned"
  /\ UNCHANGED <<rconfig, rpreset, rmode, ridx, rvalues, cache, prompted>>
  /\ UNCHANGED resolveOthers

\* A plausible slip: defaults are interpolated against the preset merged
\* with the values, so that a later variable's preset value is visible.
DefaultForSeesPreset(variable, values) ==
  IF variable.type \in {"string", "choice"} /\ variable.default.t = "string"
  THEN StrV(interpolateString(variable.default.s, values @@ rpreset.obj))
  ELSE variable.default

\* --- getDefaultValues: the value one loop iteration leaves in `values`
DefaultFor(variable, values) ==
  IF variable.type \in {"string", "choice"} /\ variable.default.t = "string"
  THEN StrV(interpolateString(variable.default.s, values))
  ELSE variable.default

DefaultsUsePreset ==
  /\ rpc = "running" /\ rmode = "defaults" /\ ridx <= Len(rconfig)
  /\ LET key == rconfig[ridx].name IN
       /\ UsesPreset(rpreset, key)
       /\ rvalues' = Put(rvalues, key, PresetValueFor(rpreset, key))
  /\ ridx' = ridx + 1
  /\ UNCHANGED <<rconfig, rpreset, rmode, cache, prompted, rpc>>
  /\ UNCHANGED resolveOthers

DefaultsUseDefault ==
  /\ rpc = "running" /\ rmode = "defaults" /\ ridx <= Len(rconfig)
  /\ LET key == rconfig[ridx].name IN
       /\ ~UsesPreset(rpreset, key)
       /\ rconfig[ridx].default.t # "undefined"
       /\ rvalues' = Put(rvalues, key, DefaultFor(rconfig[ridx], rvalues))
  /\ ridx' = ridx + 1
  /\ UNCHANGED <<rconfig, rpreset, rmode, cache, prompted, rpc>>
  /\ UNCHANGED resolveOthers

\* variable.default === undefined: the iteration assigns nothing
DefaultsNoDefault ==
  /\ rpc = "running" /\ rmode = "defaults" /\ ridx <= Len(rconfig)
  /\ ~UsesPreset(rpreset, rconfig[ridx].name)
  /\ rconfig[ridx].default.t = "undefined"
  /\ ridx' = ridx + 1
  /\ UNCHANGED <<rconfig, rpreset, rmode, rvalues, cache, prompted, rpc>>
  /\ UNCHANGED resolveOthers

DefaultsReturn ==
  /\ rpc = "running" /\ rmode = "defaults" /\ ridx > Len(rconfig)
  /\ rpc' = "returned"
  /\ UNCHANGED <<rconfig, rpreset, rmode, ridx, rvalues, cache, prompted>>
  /\ UNCHANGED resolveOthers

(***************************************************************************)
(* Specification SpecResolve: every schema of up to MaxVars variables      *)
(* drawn (in any order) from a pool, with or without a preset.             *)
(***************************************************************************)
MaxVars == 2

K_PM == <<"P","M">>
K_LC == <<"L","C">>
K_CH == <<"C","H">>
K_BO == <<"B","O">>
K_AR == <<"A","R">>
K_MSG == <<"M","S","G">>
S_npm == <<"n","p","m">>
S_yarn == <<"y","a","r","n">>
K_SL == <<"S","L">>
LowerCase == {"a", "b", "t", "x", "y"}

VarPool ==
  { Var(K_PM, "choice", <<"p","m","?">>, StrV(S_npm),
        << Opt(S_npm, S_npm), Opt(S_pnpm, S_pnpm) >>),
    \* prompt "lint ${PM}?", default "${PM} run lint"
    Var(K_LC, "string", <<"l","i","n","t"," ","$","{","P","M","}","?">>,
        StrV(<<"$","{","P","M","}"," ","r","u","n"," ","l","i","n","t">>), <<>>),
    \* prompt "${B}?", default "${B}-a"
    Var(K_A, "string", <<"$","{","B","}","?">>, StrV(<<"$","{","B","}","-","a">>), <<>>),
    \* prompt "${A}", no default
    Var(K_B, "string", <<"$","{","A","}">>, NoValue, <<>>),
    \* no default; labels "X ${A}" and "Y"
    Var(K_CH, "choice", <<"c","?">>, NoValue,
        << Opt(<<"x">>, <<"X"," ","$","{","A","}">>), Opt(<<"y">>, <<"Y">>) >>),
    Var(K_BO, "boolean", <<"$","{","C","H","}","?">>, NoValue, <<>>),
    \* prompt "${LC}", no default
    Var(K_AR, "array", <<"$","{","L","C","}">>, NoValue, <<>>),
    \* default "${AR}/${BO}/${HOME}"
    Var(K_MSG, "string", <<"m","?">>,
        StrV(<<"$","{","A","R","}","/","$","{","B","O","}","/","$","{","H","O","M","E","}">>),
        <<>>),
    \* validate = "^[a-z]+$", default "ab"
    Validated(Var(K_SL, "string", <<"s","?">>, StrV(<<"a","b">>), <<>>),
              Pattern(LowerCase)) }

Schemas ==
  UNION { { c \in [1..n -> VarPool] :
              \A i, j \in 1..n : i # j => c[i].name # c[j].name } : n \in 0..MaxVars }

Presets ==
  { [given |-> FALSE, obj |-> EmptyObject],
    [given |-> TRUE, obj |-> (K_PM :> StrV(S_pnpm))],
    [given |-> TRUE, obj |-> (K_PM :> StrV(S_yarn)) @@ (K_BO :> StrV(<<"y","e","s">>))],
    [given |-> TRUE, obj |-> (K_A :> StrV(<<"$","{","B","}","!">>))
                              @@ (K_AR :> StrV(<<"e","n",","," ","e","s">>))
                              @@ (K_SL :> StrV(<<"t","a","b">>))],
    [given |-> TRUE, obj |-> (K_LC :> StrV(<<"x">>)) @@ (K_CH :> StrV(<<"y">>))
                              @@ (K_B :> StrV(<<"b">>))
                              @@ (K_SL :> StrV(<<"X","9">>))] }

InterpIdle ==
  /\ itemplate = <<>>
  /\ ivalues = EmptyObject
  /\ iwhich = "none"
  /\ iresult = <<>>
  /\ ipc = "idle"

InitResolve ==
  /\ InferIdle
  /\ LedgerIdle
  /\ RemoveIdle
  /\ DiscoverIdle
  /\ ParseIdle
  /\ InterpIdle
  /\ AddIdle
  /\ RenderIdle
  /\ rconfig \in Schemas
  /\ rpreset \in Presets
  /\ rmode \in {"prompt", "defaults"}
  /\ ridx = 1
  /\ rvalues = EmptyObject
  /\ cache = EmptyObject
  /\ prompted = <<>>
  /\ rskill = 0
  /\ rpc = "running"

NextResolve ==
  \/ PromptUsePreset
  \/ PromptAnswered
  \/ PromptCancelled
  \/ PromptReturn
  \/ DefaultsUsePreset
  \/ DefaultsUseDefault
  \/ DefaultsNoDefault
  \/ DefaultsReturn

SpecResolve == InitResolve /\ [][NextResolve]_vars

(***************************************************************************)
(* Properties of resolution.                                               *)
(***************************************************************************)
Names(config) == {config[i].name : i \in DOMAIN config}

IndexOf(config, key) == CHOOSE i \in DOMAIN config : config[i].name = key

\* The resolved values of the variables declared before position i.
EarlierValues(i) ==
  [k \in {rconfig[j].name : j \in 1..(i - 1)} \cap DOMAIN rvalues |-> rvalues[k]]

Token(name) == <<"$", "{">> \o name \o <<"}">>

Contains(s, t) ==
  \E i \in 1..(Len(s) - Len(t) + 1) : SubSeq(s, i, i + Len(t) - 1) = t

\* Every ${vk} token with k >= i that the raw text holds is still there.
LaterTokensKept(raw, effective, i) ==
  \A k \in i..Len(rconfig) :
    Contains(raw, Token(rconfig[k].name)) => Contains(effective, Token(rconfig[k].name))

ForwardOnly(raw, effective, i) ==
  /\ effective = StatedInterpolation(raw, EarlierValues(i))
  /\ LaterTokensKept(raw, effective, i)

C2_PresetTakenVerbatim ==
  \A i \in 1..(ridx - 1) :
    LET key == rconfig[i].name IN
      (rpreset.given /\ key \in DOMAIN rpreset.obj)
        => /\ key \in DOMAIN rvalues
           /\ rvalues[key] = rpreset.obj[key]
           /\ \A n \in DOMAIN prompted : prompted[n].key # key

\* [B, A] with preset A = "${B}!" (and B resolved): A keeps the token; and a
\* string preset for the array AR stays a string.
C2_WitnessVerbatim ==
  /\ rpc = "returned"
  /\ Len(rconfig) = 2 /\ rconfig[1].name = K_B /\ rconfig[2].name = K_A
  /\ K_B \in DOMAIN rvalues
  /\ rpreset.given /\ K_A \in DOMAIN rpreset.obj
  /\ rvalues[K_A] = StrV(<<"$","{","B","}","!">>)

\* C7: defaults-only resolution of a choice variable without a default
\* yields its first option's value.
C7_FirstOptionFallback ==
  (rpc = "returned" /\ rmode = "defaults" /\ ~rpreset.given)
    => \A i \in DOMAIN rconfig :
         (rconfig[i].type = "choice" /\ rconfig[i].default.t = "undefined")
           => /\ rconfig[i].name \in DOMAIN rvalues
              /\ rvalues[rconfig[i].name] = StrV(rconfig[i].options[1].value)

ZeroValue(type) ==
  CASE type = "boolean" -> BoolV(FALSE)
    [] type = "array" -> ArrV(<<>>)
    [] OTHER -> StrV(<<>>)

\* C8: defaults-only resolution gives every variable an entry; a string,
\* boolean or array variable without a default gets its kind's zero value.
C8_EveryVariableResolved ==
  (rpc = "returned" /\ rmode = "defaults" /\ ~rpreset.given)
    => /\ DOMAIN rvalues = Names(rconfig)
       /\ \A i \in DOMAIN rconfig :
            (rconfig[i].type # "choice" /\ rconfig[i].default.t = "undefined")
              => rvalues[rconfig[i].name] = ZeroValue(rconfig[i].type)

IsOptionValue(variable, value) ==
  \E o \in DOMAIN variable.options : value = StrV(variable.options[o].value)

\* C10: a choice variable's value that came from a preset or from an
\* interactive answer is the value of one of its options (a preset matching
\* no option fails instead of entering the mapping).
C10_ChoiceValueIsAnOption ==
  \A i \in 1..(ridx - 1) :
    LET variable == rconfig[i] IN
      (/\ variable.type = "choice"
       /\ variable.name \in DOMAIN rvalues
       /\ (UsesPreset(rpreset, variable.name) \/ rmode = "prompt"))
        => IsOptionValue(variable, rvalues[variable.name])

\* C11: resolution with a preset does not end with a mapping in which a
\* string variable that declares a validate pattern holds a preset value the
\* pattern rejects (it fails instead, naming the variable and the value).
C11_PresetMismatchIsFatal ==
  rpc = "returned" =>
    \A i \in DOMAIN rconfig :
      LET variable == rconfig[i] IN
        (/\ variable.type = "string"
         /\ variable.validate.given
         /\ UsesPreset(rpreset, variable.name))
        => /\ rvalues[variable.name].t = "string"
           /\ RegexTest(variable.validate, rvalues[variable.name].s)

\* A list as the comma-separated parse leaves it: every segment trimmed, none
\* empty, none holding a comma.
IsSegmentList(value) ==
  /\ value.t = "array"
  /\ \A n \in DOMAIN value.a :
       /\ Len(value.a[n]) > 0
       /\ Trim(value.a[n]) = value.a[n]
       /\ \A c \in DOMAIN value.a[n] : value.a[n][c] # ","

\* C21: an array variable resolves to the ordered list of the trimmed,
\* non-empty comma-separated segments of the text supplied for it, whether
\* the text was typed at the prompt or given as the preset value.
C21_CommaSeparatedTextBecomesList ==
  \A i \in 1..(ridx - 1) :
    LET key == rconfig[i].name IN
      (rconfig[i].type = "array" /\ key \in DOMAIN rvalues)
        => /\ IsSegmentList(rvalues[key])
           /\ (UsesPreset(rpreset, key) /\ rpreset.obj[key].t = "string")
                => rvalues[key] = ArrV(ParseCommaSeparated(rpreset.obj[key].s))

\* What does hold: the text typed at the array prompt is split, trimmed and
\* stripped of empty segments.
C21_HoldsForPromptedInput ==
  \A n \in DOMAIN prompted :
    (prompted[n].variable.type = "array" /\ prompted[n].key \in DOMAIN rvalues)
      => IsSegmentList(rvalues[prompted[n].key])

(***************************************************************************)
(* A session: the for-loop of addCommand calls promptForVariables once per *)
(* selected skill, and sessionVariableCache lives on between the calls.    *)
(***************************************************************************)
MaxSkills == 2

SessionPool == {v \in VarPool : v.name \in {K_PM, K_LC, K_BO}}

SessionSchemas ==
  UNION { { c \in [1..n -> SessionPool] :
              \A i, j \in 1..n : i # j => c[i].name # c[j].name } : n \in 0..MaxVars }

SessionPresets ==
  { [given |-> FALSE, obj |-> EmptyObject],
    [given |-> TRUE, obj |-> (K_PM :> StrV(S_yarn))] }

InitSession ==
  /\ InferIdle
  /\ LedgerIdle
  /\ RemoveIdle
  /\ DiscoverIdle
  /\ ParseIdle
  /\ InterpIdle
  /\ AddIdle
  /\ RenderIdle
  /\ rconfig \in SessionSchemas
  /\ rpreset \in SessionPresets
  /\ rmode = "prompt"
  /\ ridx = 1
  /\ rvalues = EmptyObject
  /\ cache = EmptyObject
  /\ prompted = <<>>
  /\ rskill = 0
  /\ rpc = "running"

\* the next iteration of `for (const discoveredSkill of skillsToInstall)`
\* reaches promptForVariables with the next skill's config
SessionNextSkill ==
  /\ rpc = "returned" /\ rmode = "prompt"
  /\ rskill + 1 < MaxSkills
  /\ rskill' = rskill + 1
  /\ rconfig' \in SessionSchemas
  /\ rpreset' \in SessionPresets
  /\ ridx' = 1
  /\ rvalues' = EmptyObject
  /\ rpc' = "running"
  /\ UNCHANGED <<rmode, cache, prompted>>
  /\ UNCHANGED <<inferVars, ledgerVars, removeVars, discoverVars, parseVars, interpVars, addVars, renderVars>>

NextSession ==
  \/ PromptUsePreset
  \/ PromptAnswered
  \/ PromptCancelled
  \/ PromptReturn
  \/ SessionNextSkill

SpecSession == InitSession /\ [][NextSession]_vars

\* The default the configuration declares for the variable being resolved,
\* interpolated with the values collected so far for this skill.
DeclaredDefault ==
  LET variable == rconfig[ridx] IN
    IF variable.default.t = "undefined" THEN Undefined
    ELSE IF variable.type \in {"string", "choice"}
         THEN StrV(StatedInterpolation(variable.default.s, rvalues))
         ELSE variable.default

\* C13: (1) the cache changes only by storing, under a variable's name, the
\* value just resolved for it, so it always holds the most recent answer or
\* preset value of each name; (2) a prompt for K is shown the cached value of
\* K if there is one, whatever the schema default, and else the interpolated
\* default (false for a boolean without one); (3) when the prompt is
\* answered the cache holds the new answer for K.
C13_CachedAnswerSuggested ==
  [][/\ cache' # cache =>
          \E key \in DOMAIN rvalues' :
            /\ key \notin DOMAIN rvalues
            /\ cache' = Put(cache, key, rvalues'[key])
     /\ prompted' # prompted =>
          LET e == prompted'[Len(prompted')] IN
            /\ e.key = rconfig[ridx].name
            /\ e.initial =
                 IF e.key \in DOMAIN cache THEN cache[e.key]
                 ELSE IF DeclaredDefault.t # "undefined" THEN DeclaredDefault
                 ELSE IF rconfig[ridx].type = "boolean" THEN BoolV(FALSE)
                 ELSE Undefined
            /\ rpc' = "running" => cache'[e.key] = rvalues'[e.key]
    ]_vars

\* C13 witness: the second skill of a session prompts for PM, whose schema
\* default is npm, and is shown pnpm, the answer given for the first skill.
C13_WitnessEarlierAnswerOffered ==
  /\ rskill = 1
  /\ \E m, n \in DOMAIN prompted :
       /\ m < n
       /\ prompted[m].key = K_PM /\ prompted[n].key = K_PM
       /\ prompted[n].variable.default = StrV(S_npm)
       /\ prompted[n].initial = StrV(S_pnpm)

(***************************************************************************)
(* addCommand and installSingleSkill (commands/add.ts).                    *)
(***************************************************************************)
MaxBundles == 2

\* A skill directory of the source tree: its path, the skill name (from
\* config.meta.name or the SKILL.md frontmatter), whether it carries a
\* skill.config.toml, how many variables that declares, and how many .ejs
\* templates lie in its customization subdirectory.
Bundle(dir, name, customizable, nvars, templates) ==
  [dir |-> dir, name |-> name, customizable |-> customizable, nvars |-> nvars,
   templates |-> templates]

BundlePool ==
  { Bundle("d1", "s1", TRUE, 1, 1),
    Bundle("d2", "s2", FALSE, 0, 0),
    Bundle("d3", "s1", TRUE, 0, 1) }

SkillNames == {b.name : b \in BundlePool}

\* What discoverSkills can return: distinct directories.
Repos ==
  UNION { { r \in [1..n -> BundlePool] :
              \A i, j \in 1..n : i # j => r[i].dir # r[j].dir } : n \in 0..MaxBundles }

\* The non-empty selections p.multiselect({required: true}) can return.
RECURSIVE SubSeqs(_)
SubSeqs(q) ==
  IF q = <<>> THEN {<<>>}
  ELSE LET rest == SubSeqs(Tail(q)) IN rest \cup {<<Head(q)>> \o r : r \in rest}

Selections(q) == SubSeqs(q) \ {<<>>}

OldEntry == [name |-> "s1", customized |-> FALSE, by |-> "old"]

\* A plausible slip: the new entry is pushed and the old one is left in.
recordInstalledSkillJustPushes(skills, name, customized, by) ==
  Append(skills, [name |-> name, customized |-> customized, by |-> by])

\* recordInstalledSkill: drop the entry of that name, push the new one.
recordInstalledSkill(skills, name, customized, by) ==
  Append(SelectSeq(skills, LAMBDA e : e.name # name),
         [name |-> name, customized |-> customized, by |-> by])

\* A prompt of @clack/prompts is shown, with its suggested initial value.
Ask(prompt, initial) ==
  asked' = Append(asked, [prompt |-> prompt, initial |-> initial, skill |-> cur])

\* The variable a customizable bundle of the pool declares (when nvars > 0).
BundleVariable == Var(K_A, "string", <<"a","?">>, StrV(<<"d">>), <<>>)

\* What getDefaultValues(config, presetValues) can return for a bundle of the
\* pool: nothing for a schema without variables, else the preset's value or
\* the declared default.
PresetAnswers(bundle) ==
  IF bundle.nvars = 0 THEN {EmptyObject}
  ELSE { (BundleVariable.name :> BundleVariable.default),
         (BundleVariable.name :> StrV(<<"p">>)) }

\* A plausible slip: a bundle whose configuration declares no variable is
\* treated as a standard one.
RenderViaOnlyWithVariables(bundle) ==
  IF bundle.customizable /\ bundle.nvars > 0 THEN "renderSkill" ELSE "copyStandardSkill"

\* installSingleSkill: `if (customizable) renderSkill(...) else copyStandardSkill(...)`
RenderVia(bundle) ==
  IF bundle.customizable THEN "renderSkill" ELSE "copyStandardSkill"

\* renderSkill renders every .ejs template of the customization
\* subdirectory, whatever the mapping holds; copyStandardSkill renders none.
TemplatesRenderedBy(fn, bundle) ==
  IF fn = "renderSkill" THEN bundle.templates ELSE 0

\* One returned call: the function, the bundle's index in skillsToInstall and
\* the value mapping passed.
Call(fn, index, mapping) == [fn |-> fn, index |-> index, mapping |-> mapping]

\* The directory mkdtempSync creates, the extracted repository inside it,
\* and a local source path with its parent.
D_temp == <<"tmp", "taito-1">>
D_extracted == <<"tmp", "taito-1", "repo-main">>
D_local == <<"home", "skills">>

\* repoDir: what fetchFromGitHub returned, or resolve(skillSource.path)
RepoDir == IF asource = "github" THEN D_extracted ELSE D_local

\* cleanupTempDir(skillDir) removes join(skillDir, '..')
cleanupTempDir(dir) == SubSeq(dir, 1, Len(dir) - 1)

\* process.exit(code): the process ends at once; no finally block runs.
ProcessExit(code) ==
  /\ apc' = "exited"
  /\ exitCode' = code

InitAdd ==
  /\ InferIdle
  /\ LedgerIdle
  /\ RemoveIdle
  /\ DiscoverIdle
  /\ ParseIdle
  /\ InterpIdle
  /\ RenderIdle
  /\ rconfig = <<>> /\ rpreset = [given |-> FALSE, obj |-> EmptyObject]
  /\ rmode = "none" /\ ridx = 0 /\ rvalues = EmptyObject /\ prompted = <<>> /\ rpc = "idle"
  /\ rskill = 0
  \* sessionVariableCache is what an earlier call in this process left
  /\ cacheAtEntry \in {EmptyObject, (K_A :> StrV(<<"o">>))}
  /\ cache = cacheAtEntry
  /\ asked = <<>>
  /\ avalues = EmptyObject
  /\ calls = <<>>
  /\ confirmed = {}
  /\ deleted = {}
  /\ aopts \in [config : BOOLEAN, dryRun : BOOLEAN,
                agentMode : {"flagValid", "flagUnknown", "outputOnly", "detect"}]
  /\ asource \in {"github", "local", "invalid"}
  /\ apc = "start"
  /\ tempDir = "none"
  /\ shouldCleanup = FALSE
  /\ discovered = <<>>
  /\ toInstall = <<>>
  /\ cur = 0
  /\ stage = "none"
  /\ promptsLeft = 0
  /\ thrown = FALSE
  /\ outDirs \in [SkillNames -> {"absent", "old"}]
  /\ ledger \in {<<>>, <<OldEntry>>}
  /\ exitCode = "none"
  /\ cancelledAt = "none"
  /\ outcome = <<>>
  /\ rendered = {}

\* A plausible slip: the cache is not cleared when the command starts.
AddStartKeepsCache ==
  /\ apc = "start"
  /\ cache' = cache
  /\ IF asource = "invalid"
     THEN thrown' = TRUE /\ apc' = "catch"      \* thrown outside the inner try
     ELSE thrown' = FALSE /\ apc' = asource
  /\ UNCHANGED <<aopts, asource, tempDir, shouldCleanup, discovered, toInstall, cur,
                 stage, promptsLeft, outDirs, ledger, exitCode, cancelledAt,
                 outcome, rendered>>
  /\ UNCHANGED <<addOthers, asked>>
  /\ UNCHANGED <<avalues, calls>>
  /\ UNCHANGED <<confirmed, deleted>>

\* clearVariableCache(); parseSkillSource(source, options.ref)
AddStart ==
  /\ apc = "start"
  /\ cache' = EmptyObject
  /\ IF asource = "invalid"
     THEN thrown' = TRUE /\ apc' = "catch"      \* thrown outside the inner try
     ELSE thrown' = FALSE /\ apc' = asource
  /\ UNCHANGED <<aopts, asource, tempDir, shouldCleanup, discovered, toInstall, cur,
                 stage, promptsLeft, outDirs, ledger, exitCode, cancelledAt,
                 outcome, rendered>>
  /\ UNCHANGED <<addOthers, asked>>
  /\ UNCHANGED <<avalues, calls>>
  /\ UNCHANGED <<confirmed, deleted>>

\* fetchFromGitHub returns the extracted directory inside a fresh temp dir
FetchSucceeds ==
  /\ apc = "github"
  /\ tempDir' = "exists"
  /\ shouldCleanup' = TRUE
  /\ apc' = "discover"
  /\ UNCHANGED <<aopts, asource, discovered, toInstall, cur, stage, promptsLeft,
                 thrown, outDirs, ledger, exitCode, cancelledAt, outcome, rendered>>
  /\ UNCHANGED <<addOthers, cache, asked>>
  /\ UNCHANGED <<avalues, calls>>
  /\ UNCHANGED <<confirmed, deleted>>

\* fetchFromGitHub fails: its catch removes the temp dir and rethrows
FetchFails ==
  /\ apc = "github"
  /\ tempDir' = "removed"
  /\ thrown' = TRUE
  /\ apc' = "catch"
  /\ UNCHANGED <<aopts, asource, shouldCleanup, discovered, toInstall, cur, stage,
                 promptsLeft, outDirs, ledger, exitCode, cancelledAt, outcome, rendered>>
  /\ UNCHANGED <<addOthers, cache, asked>>
  /\ UNCHANGED <<avalues, calls>>
  /\ deleted' = deleted \cup {D_temp}
  /\ UNCHANGED confirmed

\* A plausible slip: the cleanup flag is set for a local source too.
LocalFoundMarksCleanup ==
  /\ apc = "local"
  /\ shouldCleanup' = TRUE
  /\ apc' = "discover"
  /\ UNCHANGED <<aopts, asource, tempDir, discovered, toInstall, cur,
                 stage, promptsLeft, thrown, outDirs, ledger, exitCode, cancelledAt,
                 outcome, rendered>>
  /\ UNCHANGED <<addOthers, cache, asked>>
  /\ UNCHANGED <<avalues, calls>>
  /\ UNCHANGED <<confirmed, deleted>>

\* existsSync(repoDir): the local path is the repository directory
LocalFound ==
  /\ apc = "local"
  /\ apc' = "discover"
  /\ UNCHANGED <<aopts, asource, tempDir, shouldCleanup, discovered, toInstall, cur,
                 stage, promptsLeft, thrown, outDirs, ledger, exitCode, cancelledAt,
                 outcome, rendered>>
  /\ UNCHANGED <<addOthers, cache, asked>>
  /\ UNCHANGED <<avalues, calls>>
  /\ UNCHANGED <<confirmed, deleted>>

\* !existsSync(repoDir): 'Local path not found', process.exit(1)
LocalMissing ==
  /\ apc = "local"
  /\ ProcessExit("1")
  /\ UNCHANGED <<aopts, asource, tempDir, shouldCleanup, discovered, toInstall, cur,
                 stage, promptsLeft, thrown, outDirs, ledger, cancelledAt, outcome,
                 rendered>>
  /\ UNCHANGED <<addOthers, cache, asked>>
  /\ UNCHANGED <<avalues, calls>>
  /\ UNCHANGED <<confirmed, deleted>>

\* discoveredSkills.length === 0: 'No skills found in repository', process.exit(1)
DiscoverNothing ==
  /\ apc = "discover"
  /\ discovered' = <<>>
  /\ ProcessExit("1")
  /\ UNCHANGED <<aopts, asource, tempDir, shouldCleanup, toInstall, cur, stage,
                 promptsLeft, thrown, outDirs, ledger, cancelledAt, outcome, rendered>>
  /\ UNCHANGED <<addOthers, cache, asked>>
  /\ UNCHANGED <<avalues, calls>>
  /\ UNCHANGED <<confirmed, deleted>>

\* skills found and no skillPath requested
DiscoverAll ==
  /\ apc = "discover"
  /\ \E repo \in Repos \ {<<>>} : discovered' = repo
  /\ apc' = "agent"
  /\ UNCHANGED <<aopts, asource, tempDir, shouldCleanup, toInstall, cur, stage,
                 promptsLeft, thrown, outDirs, ledger, exitCode, cancelledAt, outcome,
                 rendered>>
  /\ UNCHANGED <<addOthers, cache, asked>>
  /\ UNCHANGED <<avalues, calls>>
  /\ UNCHANGED <<confirmed, deleted>>

\* skillSource.skillPath matches one discovered skill
DiscoverRequested ==
  /\ apc = "discover"
  /\ \E repo \in Repos \ {<<>>} : \E i \in DOMAIN repo : discovered' = <<repo[i]>>
  /\ apc' = "agent"
  /\ UNCHANGED <<aopts, asource, tempDir, shouldCleanup, toInstall, cur, stage,
                 promptsLeft, thrown, outDirs, ledger, exitCode, cancelledAt, outcome,
                 rendered>>
  /\ UNCHANGED <<addOthers, cache, asked>>
  /\ UNCHANGED <<avalues, calls>>
  /\ UNCHANGED <<confirmed, deleted>>

\* skillSource.skillPath matches none: 'Skill not found at path', process.exit(1)
DiscoverRequestedMissing ==
  /\ apc = "discover"
  /\ \E repo \in Repos \ {<<>>} : discovered' = repo
  /\ ProcessExit("1")
  /\ UNCHANGED <<aopts, asource, tempDir, shouldCleanup, toInstall, cur, stage,
                 promptsLeft, thrown, outDirs, ledger, cancelledAt, outcome, rendered>>
  /\ UNCHANGED <<addOthers, cache, asked>>
  /\ UNCHANGED <<avalues, calls>>
  /\ UNCHANGED <<confirmed, deleted>>

\* options.agent names no agent: 'Unknown agent', process.exit(1)
AgentUnknown ==
  /\ apc = "agent"
  /\ aopts.agentMode = "flagUnknown"
  /\ ProcessExit("1")
  /\ UNCHANGED <<aopts, asource, tempDir, shouldCleanup, discovered, toInstall, cur,
                 stage, promptsLeft, thrown, outDirs, ledger, cancelledAt, outcome,
                 rendered>>
  /\ UNCHANGED <<addOthers, cache, asked>>
  /\ UNCHANGED <<avalues, calls>>
  /\ UNCHANGED <<confirmed, deleted>>

\* agent given, or --output given, or zero or one agent detected
AgentChosen ==
  /\ apc = "agent"
  /\ aopts.agentMode # "flagUnknown"
  /\ apc' = "select"
  /\ UNCHANGED <<aopts, asource, tempDir, shouldCleanup, discovered, toInstall, cur,
                 stage, promptsLeft, thrown, outDirs, ledger, exitCode, cancelledAt,
                 outcome, rendered>>
  /\ UNCHANGED <<addOthers, cache, asked>>
  /\ UNCHANGED <<avalues, calls>>
  /\ UNCHANGED <<confirmed, deleted>>

\* several agents detected: the operator picks one in p.select
AgentSelected ==
  /\ apc = "agent"
  /\ aopts.agentMode = "detect"
  /\ apc' = "select"
  /\ UNCHANGED <<aopts, asource, tempDir, shouldCleanup, discovered, toInstall, cur,
                 stage, promptsLeft, thrown, outDirs, ledger, exitCode, cancelledAt,
                 outcome, rendered>>
  /\ Ask("agent", Undefined)
  /\ UNCHANGED <<addOthers, cache>>
  /\ UNCHANGED <<avalues, calls>>
  /\ UNCHANGED <<confirmed, deleted>>

\* several agents detected and the operator cancels the select
AgentSelectCancelled ==
  /\ apc = "agent"
  /\ aopts.agentMode = "detect"
  /\ cancelledAt' = "agent"
  /\ ProcessExit("0")
  /\ UNCHANGED <<aopts, asource, tempDir, shouldCleanup, discovered, toInstall, cur,
                 stage, promptsLeft, thrown, outDirs, ledger, outcome, rendered>>
  /\ Ask("agent", Undefined)
  /\ UNCHANGED <<addOthers, cache>>
  /\ UNCHANGED <<avalues, calls>>
  /\ UNCHANGED <<confirmed, deleted>>

BeginInstalls(selection) ==
  /\ toInstall' = selection
  /\ outcome' = [i \in DOMAIN selection |-> "pending"]
  /\ cur' = 1
  /\ stage' = "begin"
  /\ apc' = "install"

\* discoveredSkills.length === 1: installed directly
SelectSingle ==
  /\ apc = "select"
  /\ Len(discovered) = 1
  /\ BeginInstalls(discovered)
  /\ UNCHANGED <<aopts, asource, tempDir, shouldCleanup, discovered, promptsLeft,
                 thrown, outDirs, ledger, exitCode, cancelledAt, rendered>>
  /\ UNCHANGED <<addOthers, cache, asked>>
  /\ UNCHANGED <<avalues, calls>>
  /\ UNCHANGED <<confirmed, deleted>>

SelectSeveral ==
  /\ apc = "select"
  /\ Len(discovered) > 1
  /\ \E selection \in Selections(discovered) : BeginInstalls(selection)
  /\ UNCHANGED <<aopts, asource, tempDir, shouldCleanup, discovered, promptsLeft,
                 thrown, outDirs, ledger, exitCode, cancelledAt, rendered>>
  /\ Ask("skills", Undefined)
  /\ UNCHANGED <<addOthers, cache>>
  /\ UNCHANGED <<avalues, calls>>
  /\ UNCHANGED <<confirmed, deleted>>

SelectCancelled ==
  /\ apc = "select"
  /\ Len(discovered) > 1
  /\ cancelledAt' = "skills"
  /\ ProcessExit("0")
  /\ UNCHANGED <<aopts, asource, tempDir, shouldCleanup, discovered, toInstall, cur,
                 stage, promptsLeft, thrown, outDirs, ledger, outcome, rendered>>
  /\ Ask("skills", Undefined)
  /\ UNCHANGED <<addOthers, cache>>
  /\ UNCHANGED <<avalues, calls>>
  /\ UNCHANGED <<confirmed, deleted>>

\* --- installSingleSkill(toInstall[cur]) -----------------------------------
CurBundle == toInstall[cur]

\* installSingleSkill returned; the for-loop goes on, or the try block ends
FinishBundle(how) ==
  /\ outcome' = [outcome EXCEPT ![cur] = how]
  /\ IF cur < Len(toInstall)
     THEN cur' = cur + 1 /\ stage' = "begin" /\ apc' = "install"
     ELSE cur' = cur /\ stage' = "none" /\ apc' = "finally"

\* installSingleSkill threw: the exception leaves the for-loop
ThrowFromInstall ==
  /\ outcome' = [outcome EXCEPT ![cur] = "threw"]
  /\ thrown' = TRUE
  /\ stage' = "none"
  /\ apc' = "finally"

\* not customizable: extractSkillName
InstallBeginStandard ==
  /\ apc = "install" /\ stage = "begin"
  /\ ~CurBundle.customizable
  /\ avalues' = EmptyObject
  /\ stage' = "confirm"
  /\ UNCHANGED <<aopts, asource, apc, tempDir, shouldCleanup, discovered, toInstall,
                 cur, promptsLeft, thrown, outDirs, ledger, exitCode, cancelledAt,
                 outcome, rendered>>
  /\ UNCHANGED <<addOthers, cache, asked>>
  /\ UNCHANGED calls
  /\ UNCHANGED <<confirmed, deleted>>

\* customizable with --config: parseSkillConfig, parsePresetConfig, getDefaultValues
InstallBeginPreset ==
  /\ apc = "install" /\ stage = "begin"
  /\ CurBundle.customizable /\ aopts.config
  /\ avalues' \in PresetAnswers(CurBundle)
  /\ stage' = "confirm"
  /\ UNCHANGED <<aopts, asource, apc, tempDir, shouldCleanup, discovered, toInstall,
                 cur, promptsLeft, thrown, outDirs, ledger, exitCode, cancelledAt,
                 outcome, rendered>>
  /\ UNCHANGED <<addOthers, cache, asked>>
  /\ UNCHANGED calls
  /\ UNCHANGED <<confirmed, deleted>>

\* A plausible slip: promptForVariables lacks its early return and shows a
\* prompt even when the schema declares no variable.
InstallBeginPromptAsksAnyway ==
  /\ apc = "install" /\ stage = "begin"
  /\ CurBundle.customizable /\ ~aopts.config
  /\ avalues' = EmptyObject
  /\ promptsLeft' = IF CurBundle.nvars = 0 THEN 1 ELSE CurBundle.nvars
  /\ stage' = "prompt"
  /\ UNCHANGED <<aopts, asource, apc, tempDir, shouldCleanup, discovered, toInstall,
                 cur, thrown, outDirs, ledger, exitCode, cancelledAt, outcome, rendered>>
  /\ UNCHANGED <<addOthers, cache, asked>>
  /\ UNCHANGED calls
  /\ UNCHANGED <<confirmed, deleted>>

\* customizable without --config: parseSkillConfig, then promptForVariables
InstallBeginPrompt ==
  /\ apc = "install" /\ stage = "begin"
  /\ CurBundle.customizable /\ ~aopts.config
  /\ avalues' = EmptyObject
  /\ promptsLeft' = CurBundle.nvars
  /\ stage' = IF CurBundle.nvars = 0 THEN "confirm" ELSE "prompt"
  /\ UNCHANGED <<aopts, asource, apc, tempDir, shouldCleanup, discovered, toInstall,
                 cur, thrown, outDirs, ledger, exitCode, cancelledAt, outcome, rendered>>
  /\ UNCHANGED <<addOthers, cache, asked>>
  /\ UNCHANGED calls
  /\ UNCHANGED <<confirmed, deleted>>

\* parseSkillConfig or parsePresetConfig throws
InstallConfigThrows ==
  /\ apc = "install" /\ stage = "begin"
  /\ CurBundle.customizable
  /\ ThrowFromInstall
  /\ UNCHANGED <<aopts, asource, tempDir, shouldCleanup, discovered, toInstall, cur,
                 promptsLeft, outDirs, ledger, exitCode, cancelledAt, rendered>>
  /\ UNCHANGED <<addOthers, cache, asked>>
  /\ UNCHANGED <<avalues, calls>>
  /\ UNCHANGED <<confirmed, deleted>>

\* one promptForVariable answered: values[key] = value, cache[key] = value
InstallPromptAnswered ==
  /\ apc = "install" /\ stage = "prompt" /\ promptsLeft > 0
  /\ promptsLeft' = promptsLeft - 1
  /\ avalues' = Put(avalues, BundleVariable.name, StrV(<<"t">>))
  /\ cache' = Put(cache, BundleVariable.name, StrV(<<"t">>))
  /\ stage' = IF promptsLeft = 1 THEN "confirm" ELSE "prompt"
  /\ UNCHANGED <<aopts, asource, apc, tempDir, shouldCleanup, discovered, toInstall,
                 cur, thrown, outDirs, ledger, exitCode, cancelledAt, outcome, rendered>>
  /\ Ask("variable", InitialValue(BundleVariable, Get(cache, BundleVariable.name)))
  /\ UNCHANGED addOthers
  /\ UNCHANGED calls
  /\ UNCHANGED <<confirmed, deleted>>

\* p.isCancel(value) in promptForVariables: process.exit(0)
InstallPromptCancelled ==
  /\ apc = "install" /\ stage = "prompt" /\ promptsLeft > 0
  /\ cancelledAt' = "variable"
  /\ outcome' = [outcome EXCEPT ![cur] = "cancelled"]
  /\ ProcessExit("0")
  /\ UNCHANGED <<aopts, asource, tempDir, shouldCleanup, discovered, toInstall, cur,
                 stage, promptsLeft, thrown, outDirs, ledger, rendered>>
  /\ Ask("variable", InitialValue(BundleVariable, Get(cache, BundleVariable.name)))
  /\ UNCHANGED <<addOthers, cache>>
  /\ UNCHANGED <<avalues, calls>>
  /\ UNCHANGED <<confirmed, deleted>>

OutputExists == outDirs[CurBundle.name] # "absent"

\* !(existsSync(outputDir) && !options.dryRun): no confirmation asked
InstallNoConfirm ==
  /\ apc = "install" /\ stage = "confirm"
  /\ ~(OutputExists /\ ~aopts.dryRun)
  /\ stage' = "render"
  /\ UNCHANGED <<aopts, asource, apc, tempDir, shouldCleanup, discovered, toInstall,
                 cur, promptsLeft, thrown, outDirs, ledger, exitCode, cancelledAt,
                 outcome, rendered>>
  /\ UNCHANGED <<addOthers, cache, asked>>
  /\ UNCHANGED <<avalues, calls>>
  /\ UNCHANGED <<confirmed, deleted>>

InstallOverwriteConfirmed ==
  /\ apc = "install" /\ stage = "confirm"
  /\ OutputExists /\ ~aopts.dryRun
  /\ stage' = "render"
  /\ UNCHANGED <<aopts, asource, apc, tempDir, shouldCleanup, discovered, toInstall,
                 cur, promptsLeft, thrown, outDirs, ledger, exitCode, cancelledAt,
                 outcome, rendered>>
  /\ Ask("overwrite", BoolV(FALSE))
  /\ UNCHANGED <<addOthers, cache>>
  /\ UNCHANGED <<avalues, calls>>
  /\ confirmed' = confirmed \cup {cur}
  /\ UNCHANGED deleted

\* the operator answers no: 'Skipping installation', return
InstallOverwriteDeclined ==
  /\ apc = "install" /\ stage = "confirm"
  /\ OutputExists /\ ~aopts.dryRun
  /\ FinishBundle("declined")
  /\ UNCHANGED <<aopts, asource, tempDir, shouldCleanup, discovered, toInstall,
                 promptsLeft, thrown, outDirs, ledger, exitCode, cancelledAt, rendered>>
  /\ Ask("overwrite", BoolV(FALSE))
  /\ UNCHANGED <<addOthers, cache>>
  /\ UNCHANGED <<avalues, calls>>
  /\ UNCHANGED <<confirmed, deleted>>

\* A plausible slip: cancelling the confirm ends the process like the other
\* cancels do, and the bundles that remain are not processed.
InstallOverwriteCancelledExits ==
  /\ apc = "install" /\ stage = "confirm"
  /\ OutputExists /\ ~aopts.dryRun
  /\ cancelledAt' = "overwrite"
  /\ outcome' = [outcome EXCEPT ![cur] = "cancelled"]
  /\ ProcessExit("0")
  /\ UNCHANGED <<aopts, asource, tempDir, shouldCleanup, discovered, toInstall, cur, stage,
                 promptsLeft, thrown, outDirs, ledger, rendered>>
  /\ Ask("overwrite", BoolV(FALSE))
  /\ UNCHANGED <<addOthers, cache>>
  /\ UNCHANGED <<avalues, calls>>
  /\ UNCHANGED <<confirmed, deleted>>

\* the operator cancels the confirm: p.isCancel(overwrite), same branch
InstallOverwriteCancelled ==
  /\ apc = "install" /\ stage = "confirm"
  /\ OutputExists /\ ~aopts.dryRun
  /\ cancelledAt' = "overwrite"
  /\ FinishBundle("cancelled")
  /\ UNCHANGED <<aopts, asource, tempDir, shouldCleanup, discovered, toInstall,
                 promptsLeft, thrown, outDirs, ledger, exitCode, rendered>>
  /\ Ask("overwrite", BoolV(FALSE))
  /\ UNCHANGED <<addOthers, cache>>
  /\ UNCHANGED <<avalues, calls>>
  /\ UNCHANGED <<confirmed, deleted>>

\* renderSkill / copyStandardSkill returns its file list
InstallRenderReturns ==
  /\ apc = "install" /\ stage = "render"
  /\ rendered' = rendered \cup {cur}
  /\ calls' = Append(calls, Call(RenderVia(CurBundle), cur, avalues))
  /\ outDirs' = IF aopts.dryRun THEN outDirs
                ELSE [outDirs EXCEPT ![CurBundle.name] = CurBundle.dir]
  /\ stage' = "record"
  /\ UNCHANGED <<aopts, asource, apc, tempDir, shouldCleanup, discovered, toInstall,
                 cur, promptsLeft, thrown, ledger, exitCode, cancelledAt, outcome>>
  /\ UNCHANGED <<addOthers, cache, asked>>
  /\ UNCHANGED avalues
  /\ UNCHANGED <<confirmed, deleted>>

\* A plausible slip: the metadata is recorded before rendering, so that a
\* failed render leaves its entry behind.
InstallRenderThrowsAfterRecord ==
  /\ apc = "install" /\ stage = "render"
  /\ ledger' = IF aopts.dryRun THEN ledger
               ELSE recordInstalledSkill(ledger, CurBundle.name, CurBundle.customizable,
                                         CurBundle.dir)
  /\ ThrowFromInstall
  /\ UNCHANGED <<aopts, asource, tempDir, shouldCleanup, discovered, toInstall, cur,
                 promptsLeft, outDirs, exitCode, cancelledAt, rendered>>
  /\ UNCHANGED <<addOthers, cache, asked>>
  /\ UNCHANGED <<avalues, calls>>
  /\ UNCHANGED <<confirmed, deleted>>

\* renderSkill / copyStandardSkill throws, possibly after writing some files
InstallRenderThrows ==
  /\ apc = "install" /\ stage = "render"
  /\ \/ outDirs' = outDirs
     \/ ~aopts.dryRun /\ outDirs' = [outDirs EXCEPT ![CurBundle.name] = "partial"]
  /\ ThrowFromInstall
  /\ UNCHANGED <<aopts, asource, tempDir, shouldCleanup, discovered, toInstall, cur,
                 promptsLeft, ledger, exitCode, cancelledAt, rendered>>
  /\ UNCHANGED <<addOthers, cache, asked>>
  /\ UNCHANGED <<avalues, calls>>
  /\ UNCHANGED <<confirmed, deleted>>

\* if (!options.dryRun) recordInstalledSkill(...); the results are shown
InstallRecord ==
  /\ apc = "install" /\ stage = "record"
  /\ ledger' = IF aopts.dryRun THEN ledger
               ELSE recordInstalledSkill(ledger, CurBundle.name, CurBundle.customizable,
                                         CurBundle.dir)
  /\ FinishBundle(IF aopts.dryRun THEN "dryrun" ELSE "installed")
  /\ UNCHANGED <<aopts, asource, tempDir, shouldCleanup, discovered, toInstall,
                 promptsLeft, thrown, outDirs, exitCode, cancelledAt, rendered>>
  /\ UNCHANGED <<addOthers, cache, asked>>
  /\ UNCHANGED <<avalues, calls>>
  /\ UNCHANGED <<confirmed, deleted>>

\* finally { if (shouldCleanup) cleanupTempDir(repoDir) }
AddFinally ==
  /\ apc = "finally"
  /\ tempDir' = IF shouldCleanup /\ cleanupTempDir(RepoDir) = D_temp
                THEN "removed" ELSE tempDir
  /\ deleted' = IF shouldCleanup THEN deleted \cup {cleanupTempDir(RepoDir)} ELSE deleted
  /\ apc' = IF thrown THEN "catch" ELSE "return"
  /\ UNCHANGED <<aopts, asource, shouldCleanup, discovered, toInstall, cur, stage,
                 promptsLeft, thrown, outDirs, ledger, exitCode, cancelledAt, outcome,
                 rendered>>
  /\ UNCHANGED <<addOthers, cache, asked>>
  /\ UNCHANGED <<avalues, calls>>
  /\ UNCHANGED confirmed

\* catch (error): spinner.stop('Failed'), p.log.error, process.exit(1)
AddCatch ==
  /\ apc = "catch"
  /\ ProcessExit("1")
  /\ UNCHANGED <<aopts, asource, tempDir, shouldCleanup, discovered, toInstall, cur,
                 stage, promptsLeft, thrown, outDirs, ledger, cancelledAt, outcome,
                 rendered>>
  /\ UNCHANGED <<addOthers, cache, asked>>
  /\ UNCHANGED <<avalues, calls>>
  /\ UNCHANGED <<confirmed, deleted>>

\* addCommand returns; the process ends with status 0
AddReturn ==
  /\ apc = "return"
  /\ apc' = "returned"
  /\ exitCode' = "0"
  /\ UNCHANGED <<aopts, asource, tempDir, shouldCleanup, discovered, toInstall, cur,
                 stage, promptsLeft, thrown, outDirs, ledger, cancelledAt, outcome,
                 rendered>>
  /\ UNCHANGED <<addOthers, cache, asked>>
  /\ UNCHANGED <<avalues, calls>>
  /\ UNCHANGED <<confirmed, deleted>>

NextAdd ==
  \/ AddStart
  \/ FetchSucceeds
  \/ FetchFails
  \/ LocalFound
  \/ LocalMissing
  \/ DiscoverNothing
  \/ DiscoverAll
  \/ DiscoverRequested
  \/ DiscoverRequestedMissing
  \/ AgentUnknown
  \/ AgentChosen
  \/ AgentSelected
  \/ AgentSelectCancelled
  \/ SelectSingle
  \/ SelectSeveral
  \/ SelectCancelled
  \/ InstallBeginStandard
  \/ InstallBeginPreset
  \/ InstallBeginPrompt
  \/ InstallConfigThrows
  \/ InstallPromptAnswered
  \/ InstallPromptCancelled
  \/ InstallNoConfirm
  \/ InstallOverwriteConfirmed
  \/ InstallOverwriteDeclined
  \/ InstallOverwriteCancelled
  \/ InstallRenderReturns
  \/ InstallRenderThrows
  \/ InstallRecord
  \/ AddFinally
  \/ AddCatch
  \/ AddReturn

SpecAdd == InitAdd /\ [][NextAdd]_vars

Terminated == apc \in {"returned", "exited"}

\* --- Properties of addCommand ---------------------------------------------
Unrecorded == {"cancelled", "declined", "threw"}

WroteNothing(i) == \A k \in DOMAIN ledger : ledger[k].by # toInstall[i].dir

\* C3: the ledger changes only in the recording step of installSingleSkill,
\* which is reached only after renderSkill / copyStandardSkill returned for the
\* current bundle; a bundle whose install was cancelled, declined or threw
\* has no ledger entry written by it.
C3_RecordOnlyAfterRender ==
  /\ [](\A i \in DOMAIN outcome : outcome[i] \in Unrecorded => WroteNothing(i))
  /\ [][ledger' # ledger =>
          /\ apc = "install" /\ stage = "record"
          /\ cur \in rendered
          /\ ~aopts.dryRun
          /\ outcome'[cur] = "installed"
          /\ ledger' = recordInstalledSkill(ledger, CurBundle.name,
                                            CurBundle.customizable, CurBundle.dir)]_vars

\* C3 witness: in one run a bundle was rendered and recorded, and the render
\* of another bundle threw after writing files, leaving no entry of its own.
C3_WitnessRecordedAndThrown ==
  /\ apc = "exited" /\ exitCode = "1" /\ thrown
  /\ \E i, j \in DOMAIN outcome :
       /\ outcome[i] = "installed" /\ i \in rendered
       /\ \E k \in DOMAIN ledger : ledger[k].by = toInstall[i].dir
       /\ outcome[j] = "threw"
       /\ outDirs[toInstall[j].name] = "partial"

\* C4: a terminated GitHub-sourced addCommand has left no temporary directory.
C4_TempDirRemovedOnEveryExit ==
  (Terminated /\ asource = "github") => tempDir # "exists"

\* C5: a run in which the operator cancelled a prompt ends with a status that
\* is neither the success status nor the failure status.
C5_CancelHasItsOwnStatus ==
  (Terminated /\ cancelledAt # "none") => exitCode \notin {"0", "1"}

StaleAnswers == {cacheAtEntry[k] : k \in DOMAIN cacheAtEntry}

VariablePrompts == {i \in DOMAIN asked : asked[i].prompt = "variable"}

\* C12: once addCommand has started, the answer cache holds nothing until a
\* variable prompt of this invocation is answered, it never holds an answer
\* that was in it when addCommand was called, and no variable prompt is shown
\* such an answer as its suggested value.
C12_NoAnswerFromEarlierInvocation ==
  apc \notin {"idle", "start"} =>
    /\ VariablePrompts = {} => cache = EmptyObject
    /\ \A k \in DOMAIN cache : cache[k] \notin StaleAnswers
    /\ \A i \in VariablePrompts : asked[i].initial \notin StaleAnswers

\* C12 witness: addCommand was called with an answer for the bundle's variable
\* left in the cache, and its variable prompt suggested the schema default.
C12_WitnessStaleAnswerNotOffered ==
  /\ HasKey(cacheAtEntry, BundleVariable.name)
  /\ \E i \in VariablePrompts : asked[i].initial = BundleVariable.default
  /\ cache = (BundleVariable.name :> StrV(<<"t">>))

\* A bundle whose configuration document is present and declares no variable.
ZeroVariables(bundle) == bundle.customizable /\ bundle.nvars = 0

ZeroVariableCalls == {i \in DOMAIN calls : ZeroVariables(toInstall[calls[i].index])}

C18_ZeroVariableBundleIsCustomized ==
  /\ \A i \in ZeroVariableCalls :
       calls[i].fn = "renderSkill" /\ calls[i].mapping = EmptyObject
  /\ \A k \in DOMAIN toInstall, e \in DOMAIN ledger :
       (ZeroVariables(toInstall[k]) /\ ledger[e].by = toInstall[k].dir)
         => ledger[e].customized

\* C18 witness: a zero-variable bundle went through renderSkill and its entry
\* is in the metadata.
C18_WitnessZeroVariableBundleRecorded ==
  \E i \in ZeroVariableCalls : \E e \in DOMAIN ledger :
     /\ calls[i].fn = "renderSkill"
     /\ ledger[e].by = toInstall[calls[i].index].dir
     /\ ledger[e].customized

SkippedAtConfirm(i) ==
  /\ outcome[i] \in {"declined", "cancelled"}
  /\ \E n \in DOMAIN asked : asked[n].prompt = "overwrite" /\ asked[n].skill = i

\* C25: outside a dry run an output directory that exists is written into
\* only for a bundle whose overwrite confirmation was answered yes; a bundle
\* whose confirmation was declined or cancelled has no render call, no file
\* written and no ledger entry of its own, and the loop goes on to the next
\* selected bundle.
C25_OverwriteOnlyWhenConfirmed ==
  /\ [](\A i \in DOMAIN outcome :
          SkippedAtConfirm(i) =>
            /\ i \notin rendered /\ i \notin confirmed
            /\ \A c \in DOMAIN calls : calls[c].index # i
            /\ WroteNothing(i))
  /\ [][/\ \A n \in SkillNames :
            (outDirs'[n] # outDirs[n] /\ outDirs[n] # "absent")
              => (cur \in confirmed /\ CurBundle.name = n /\ ~aopts.dryRun)
        /\ (apc = "install" /\ stage = "confirm" /\ outcome'[cur] \in {"declined", "cancelled"})
              => /\ outDirs' = outDirs /\ ledger' = ledger
                 /\ IF cur < Len(toInstall)
                    THEN cur' = cur + 1 /\ apc' = "install" /\ stage' = "begin"
                    ELSE apc' = "finally"]_vars

\* C25 witness: the confirmation of one bundle was declined or cancelled
\* (one was cancelled in this run), its output directory kept what it held,
\* and a later bundle was installed in the same run.
C25_WitnessSkippedThenInstalled ==
  \E i, j \in DOMAIN outcome :
    /\ i < j
    /\ SkippedAtConfirm(i) /\ cancelledAt = "overwrite"
    /\ outDirs[toInstall[i].name] = "old"
    /\ outcome[j] = "installed"

\* C26: cleanupTempDir runs only for a source fetched from GitHub, and what
\* is deleted is the temp directory: for a local-path source no directory is
\* deleted, neither the source directory nor its parent.
C26_CleanupOnlyForFetchedSource ==
  /\ shouldCleanup => asource = "github"
  /\ deleted \subseteq {D_temp}
  /\ asource = "local" => deleted = {}

\* C26 witness: a bundle of a local-path source was installed, addCommand
\* returned, and nothing was deleted.
C26_WitnessLocalSourceKept ==
  /\ asource = "local" /\ apc = "returned"
  /\ \E i \in DOMAIN outcome : outcome[i] = "installed"
  /\ deleted = {}

\* C19: when add is run with --config, addCommand shows no prompt at all from
\* start to finish: no variable prompt, no agent or skill selection, no
\* overwrite confirmation.
C19_ConfigNeverSolicitsInput ==
  aopts.config => asked = <<>>

\* What does hold under --config: no variable prompt is shown.
C19_HoldsForVariablePrompts ==
  aopts.config => VariablePrompts = {}

(***************************************************************************)
(* renderSkill (lib/render.ts).  A path is a string, a sequence of         *)
(* characters, relative to the directory it is listed from.                *)
(***************************************************************************)
MaxFiles == 3

StartsWith(s, prefix) ==
  Len(s) >= Len(prefix) /\ SubSeq(s, 1, Len(prefix)) = prefix

EndsWith(s, suffix) ==
  Len(s) >= Len(suffix) /\ SubSeq(s, Len(s) - Len(suffix) + 1, Len(s)) = suffix

P_skillz == <<".", "s", "k", "i", "l", "l", "z">>
P_ejs == <<".", "e", "j", "s">>
P_dot == <<".">>
P_packageJson == <<"p", "a", "c", "k", "a", "g", "e", ".", "j", "s", "o", "n">>
P_packageLock == <<"p", "a", "c", "k", "a", "g", "e", "-", "l", "o", "c", "k", ".", "j", "s", "o", "n">>
P_nodeModules == <<"n", "o", "d", "e", "_", "m", "o", "d", "u", "l", "e", "s">>

\* path.relative(dir, path) for a path below dir
relative(dir, path) == SubSeq(path, Len(dir) + 2, Len(path))

\* relativePath.replace(/\.ejs$/, "")
StripEjs(path) ==
  IF EndsWith(path, P_ejs) THEN SubSeq(path, 1, Len(path) - Len(P_ejs)) ELSE path

\* The directory names on the way to the file, and the file's own name last.
RECURSIVE Entries(_, _)
Entries(path, acc) ==
  IF path = <<>> THEN <<acc>>
  ELSE IF Head(path) = "/" THEN <<acc>> \o Entries(Tail(path), <<>>)
  ELSE Entries(Tail(path), Append(acc, Head(path)))

FileName(path) == LET e == Entries(path, <<>>) IN e[Len(e)]

\* collectFiles(join(skillDir, ".skillz"), ".ejs"): every file below .skillz
\* whose name ends with the extension
collectFiles(files, dir, extension) ==
  { f \in files : StartsWith(f, dir \o <<"/">>) /\ EndsWith(FileName(f), extension) }

\* collectAllFiles(skillDir): every file not below node_modules or a hidden
\* directory
collectAllFiles(files) ==
  { f \in files :
      LET e == Entries(f, <<>>) IN
        \A i \in 1..(Len(e) - 1) : e[i] # P_nodeModules /\ ~StartsWith(e[i], P_dot) }

\* A plausible slip: the loop forgets the templates' targets.
SkipsRootFileIgnoringTemplates(relativePath, targets) ==
  \/ StartsWith(relativePath, P_skillz)
  \/ StartsWith(relativePath, P_dot)
  \/ relativePath = P_packageJson
  \/ relativePath = P_packageLock
  \/ relativePath = P_nodeModules

\* the three `continue` conditions of the passthrough loop
SkipsRootFile(relativePath, targets) ==
  \/ StartsWith(relativePath, P_skillz)
  \/ relativePath \in targets
  \/ StartsWith(relativePath, P_dot)
  \/ relativePath = P_packageJson
  \/ relativePath = P_packageLock
  \/ relativePath = P_nodeModules

Absent == [kind |-> "absent", from |-> <<>>]
Old == [kind |-> "old", from |-> <<>>]
RenderedFrom(templatePath) == [kind |-> "rendered", from |-> templatePath]
CopyOf(filePath) == [kind |-> "copy", from |-> filePath]

F_tplS == <<".", "s", "k", "i", "l", "l", "z", "/", "S", ".", "e", "j", "s">>
F_tplRA == <<".", "s", "k", "i", "l", "l", "z", "/", "r", "/", "a", ".", "e", "j", "s">>
F_tplXEjs == <<".", "s", "k", "i", "l", "l", "z", "/", "x", ".", "e", "j", "s", ".", "e", "j", "s">>
F_tplNote == <<".", "s", "k", "i", "l", "l", "z", "/", "n">>
F_S == <<"S">>
F_RA == <<"r", "/", "a">>
F_XEjs == <<"x", ".", "e", "j", "s">>
F_B == <<"b">>
F_hidden == <<".", "h">>
F_module == <<"n", "o", "d", "e", "_", "m", "o", "d", "u", "l", "e", "s", "/", "m">>
F_hiddenDirFile == <<".", "g", "/", "c">>
F_nestedHidden == <<"r", "/", ".", "h">>
F_nestedManifest == <<"r", "/">> \o P_packageJson

FilePool ==
  { F_tplS, F_tplRA, F_tplXEjs, F_tplNote, F_S, F_RA, F_XEjs, F_B, F_hidden,
    P_packageJson, F_module, F_hiddenDirFile, F_nestedHidden, F_nestedManifest }

SkillDirs == { d \in SUBSET FilePool : Cardinality(d) <= MaxFiles }

TargetOf(templatePath) == StripEjs(relative(P_skillz, templatePath))

OutputPaths ==
  { TargetOf(t) : t \in collectFiles(FilePool, P_skillz, P_ejs) } \cup FilePool

\* The orders in which a directory walk can come upon the files.
Listings(files) ==
  { q \in [1..Cardinality(files) -> files] :
      \A i, j \in DOMAIN q : i # j => q[i] # q[j] }

\* The files of the walk that a collector keeps, in the walk's order.
Kept(walk, files) == SelectSeq(walk, LAMBDA f : f \in files)

InitRender ==
  /\ InferIdle
  /\ LedgerIdle
  /\ RemoveIdle
  /\ DiscoverIdle
  /\ ParseIdle
  /\ InterpIdle
  /\ ResolveIdle
  /\ AddIdle
  /\ skillDir \in SkillDirs
  /\ listing \in Listings(skillDir)
  /\ dryRun \in BOOLEAN
  /\ outputDir \in { [q \in OutputPaths |-> Absent],
                     [q \in OutputPaths |-> IF q = F_S THEN Old ELSE Absent] }
  /\ templateTargets = {}
  /\ renderedFiles = <<>>
  /\ pending = <<>>
  /\ renderPc = "start"
  /\ earlier = <<>>

\* const templateFiles = collectFiles(skillzDir, ".ejs")
RenderCollectTemplates ==
  /\ renderPc = "start"
  /\ pending' = Kept(listing, collectFiles(skillDir, P_skillz, P_ejs))
  /\ renderPc' = "templates"
  /\ UNCHANGED <<skillDir, dryRun, outputDir, templateTargets, renderedFiles>>
  /\ UNCHANGED renderOthers

\* one pass of the template loop
RenderTemplateWritten ==
  /\ renderPc = "templates"
  /\ pending # <<>>
  /\ LET templatePath == Head(pending)
         target == TargetOf(templatePath) IN
         /\ templateTargets' = templateTargets \cup {target}
         /\ outputDir' = IF dryRun THEN outputDir
                         ELSE [outputDir EXCEPT ![target] = RenderedFrom(templatePath)]
         /\ renderedFiles' = Append(renderedFiles, target)
         /\ pending' = Tail(pending)
  /\ UNCHANGED <<skillDir, dryRun, renderPc>>
  /\ UNCHANGED renderOthers

\* renderTemplate throws 'Failed to render template'
RenderTemplateThrows ==
  /\ renderPc = "templates"
  /\ pending # <<>>
  /\ templateTargets' = templateTargets \cup {TargetOf(Head(pending))}
  /\ renderPc' = "threw"
  /\ UNCHANGED <<skillDir, dryRun, outputDir, renderedFiles, pending>>
  /\ UNCHANGED renderOthers

\* const rootFiles = collectAllFiles(skillDir)
RenderCollectRoot ==
  /\ renderPc = "templates"
  /\ pending = <<>>
  /\ pending' = Kept(listing, collectAllFiles(skillDir))
  /\ renderPc' = "root"
  /\ UNCHANGED <<skillDir, dryRun, outputDir, templateTargets, renderedFiles>>
  /\ UNCHANGED renderOthers

\* one pass of the passthrough loop that ends in `continue`
RenderRootSkipped ==
  /\ renderPc = "root"
  /\ pending # <<>>
  /\ SkipsRootFile(Head(pending), templateTargets)
  /\ pending' = Tail(pending)
  /\ UNCHANGED <<skillDir, dryRun, outputDir, templateTargets, renderedFiles, renderPc>>
  /\ UNCHANGED renderOthers

\* A plausible slip: a dry run leaves the copied files out of the list.
RenderRootCopiedUnlistedWhenDry ==
  /\ renderPc = "root"
  /\ pending # <<>>
  /\ LET filePath == Head(pending) IN
       /\ ~SkipsRootFile(filePath, templateTargets)
       /\ outputDir' = IF dryRun THEN outputDir
                       ELSE [outputDir EXCEPT ![filePath] = CopyOf(filePath)]
       /\ renderedFiles' = IF dryRun THEN renderedFiles
                           ELSE Append(renderedFiles, filePath)
       /\ pending' = Tail(pending)
  /\ UNCHANGED <<skillDir, dryRun, templateTargets, renderPc>>
  /\ UNCHANGED renderOthers

\* one pass of the passthrough loop that copies the file
RenderRootCopied ==
  /\ renderPc = "root"
  /\ pending # <<>>
  /\ LET filePath == Head(pending) IN
       /\ ~SkipsRootFile(filePath, templateTargets)
       /\ outputDir' = IF dryRun THEN outputDir
                       ELSE [outputDir EXCEPT ![filePath] = CopyOf(filePath)]
       /\ renderedFiles' = Append(renderedFiles, filePath)
       /\ pending' = Tail(pending)
  /\ UNCHANGED <<skillDir, dryRun, templateTargets, renderPc>>
  /\ UNCHANGED renderOthers

\* return renderedFiles
RenderReturn ==
  /\ renderPc = "root"
  /\ pending = <<>>
  /\ renderPc' = "returned"
  /\ UNCHANGED <<skillDir, dryRun, outputDir, templateTargets, renderedFiles, pending>>
  /\ UNCHANGED renderOthers

NextRender ==
  \/ RenderCollectTemplates
  \/ RenderTemplateWritten
  \/ RenderTemplateThrows
  \/ RenderCollectRoot
  \/ RenderRootSkipped
  \/ RenderRootCopied
  \/ RenderReturn

SpecRender == InitRender /\ [][NextRender]_vars

\* --- Properties of renderSkill --------------------------------------------
Occurrences(q, x) == Cardinality({i \in DOMAIN q : q[i] = x})

\* The templates whose output path is also a file of the bundle root.
ShadowingTemplates ==
  { t \in collectFiles(skillDir, P_skillz, P_ejs) : TargetOf(t) \in skillDir }

\* C6: where a template's output path P is also a file of the bundle root, the
\* output never holds a copy of the root file at P, and once renderSkill has
\* returned P holds the rendered template (unless dryRun, which writes
\* nothing) and is reported exactly once.
C6_TemplateWinsOverRootFile ==
  \A t \in ShadowingTemplates :
    /\ outputDir[TargetOf(t)].kind # "copy"
    /\ renderPc = "returned" =>
         /\ Occurrences(renderedFiles, TargetOf(t)) = 1
         /\ ~dryRun => outputDir[TargetOf(t)] = RenderedFrom(t)

\* C6 witness: renderSkill returned having written a template over the path
\* of a root file, and having copied another root file.
C6_WitnessTemplateOverRootFile ==
  /\ renderPc = "returned"
  /\ ~dryRun
  /\ \E t \in ShadowingTemplates : outputDir[TargetOf(t)] = RenderedFrom(t)
  /\ \E q \in skillDir : outputDir[q] = CopyOf(q)

\* C14: when renderSkill has returned after writing into an output directory
\* that held a prior install, no file of the prior install is left: the
\* directory holds what a fresh install into an empty directory holds.
C14_ReinstallLeavesNoOldFile ==
  (renderPc = "returned" /\ ~dryRun) =>
    \A q \in OutputPaths : outputDir[q].kind # "old"

\* The list renderSkill is to return: the templates' targets in the order of
\* the walk, then the root files that are passed through, in that order.
StatedRenderedFiles ==
  LET templates == Kept(listing, collectFiles(skillDir, P_skillz, P_ejs))
      targets == {TargetOf(t) : t \in collectFiles(skillDir, P_skillz, P_ejs)}
      passed == SelectSeq(Kept(listing, collectAllFiles(skillDir)),
                          LAMBDA f : ~SkipsRootFile(f, targets))
  IN [i \in DOMAIN templates |-> TargetOf(templates[i])] \o passed

\* C15: a dry run never changes what the output directory holds, and the
\* list renderSkill returns is the same function of the bundle in a dry run
\* and in a writing run.
C15_DryRunWritesNothingSameList ==
  /\ dryRun => \A q \in OutputPaths : outputDir[q].kind \in {"absent", "old"}
  /\ renderPc = "returned" => renderedFiles = StatedRenderedFiles

\* C15 witness: a dry run returned a list with a template target and a copied
\* file, one of them the path of a file the output directory already held,
\* and that file is as it was.
C15_WitnessDryRunListed ==
  /\ renderPc = "returned" /\ dryRun
  /\ outputDir[F_S] = Old
  /\ \E i, j \in DOMAIN renderedFiles :
       /\ i < j
       /\ renderedFiles[i] \in templateTargets
       /\ renderedFiles[j] \notin templateTargets
       /\ F_S \in {renderedFiles[i], renderedFiles[j]}

\* The files the passthrough copy is said to leave out, wherever they lie: a
\* hidden dotfile, a packaging manifest, anything under node_modules,
\* anything under the customization subdirectory.  A file below any hidden
\* directory is counted as hidden too.
StatedExcluded(path) ==
  LET e == Entries(path, <<>>) IN
    \/ \E i \in 1..Len(e) : StartsWith(e[i], P_dot)
    \/ FileName(path) \in {P_packageJson, P_packageLock}
    \/ \E i \in 1..(Len(e) - 1) : e[i] = P_nodeModules

\* C20: once renderSkill has returned, no hidden dotfile, packaging manifest,
\* file under node_modules or file under the customization subdirectory has
\* been copied, wherever in the tree it lies, and every other file that no
\* template claims has been copied verbatim to the same relative path.
C20_PassthroughExclusionsAnywhere ==
  (renderPc = "returned" /\ ~dryRun) =>
    \A f \in skillDir :
      /\ StatedExcluded(f) => outputDir[f] # CopyOf(f)
      /\ (~StatedExcluded(f) /\ f \notin templateTargets) => outputDir[f] = CopyOf(f)

\* What does hold: every file outside the stated exclusions that no template
\* claims is copied to the same relative path.
C20_HoldsEveryOtherFileCopied ==
  (renderPc = "returned" /\ ~dryRun) =>
    \A f \in skillDir :
      (~StatedExcluded(f) /\ f \notin templateTargets) => outputDir[f] = CopyOf(f)

\* What does hold: the exclusions apply to what lies at the top of the bundle
\* (a name at the root, or a file below a hidden or node_modules directory).
C20_HoldsAtTheRoot ==
  (renderPc = "returned" /\ ~dryRun) =>
    \A f \in skillDir :
      LET e == Entries(f, <<>>) IN
        ( \/ StartsWith(f, P_dot)
          \/ f \in {P_packageJson, P_packageLock}
          \/ \E i \in 1..(Len(e) - 1) : e[i] = P_nodeModules \/ StartsWith(e[i], P_dot) )
        => outputDir[f] # CopyOf(f)

(***************************************************************************)
(* renderWithDefaults (lib/render.ts), as buildCommand calls it: the       *)
(* templates are rendered into the skill directory itself.  outputDir is   *)
(* then the skill directory's own tree.                                    *)
(***************************************************************************)
MaxBuilds == 2

\* What a path of the tree holds: a file of the bundle as its author wrote
\* it, or the rendering of a template, itself a file with contents.
Source(path) == [kind |-> "source", from |-> <<path>>]
BuiltFrom(templatePath, template) ==
  [kind |-> "built", from |-> <<templatePath>> \o template.from]

B_tplNested == <<".", "s", "k", "i", "l", "l", "z", "/", ".", "s", "k", "i", "l", "l", "z", "/", "y", ".", "e", "j", "s", ".", "e", "j", "s">>
B_tplY == <<".", "s", "k", "i", "l", "l", "z", "/", "y", ".", "e", "j", "s">>
B_Y == <<"y">>

BuildPool == {F_tplS, F_tplRA, F_tplXEjs, F_tplNote, F_S, F_B, B_tplNested}

BuildDirs == { d \in SUBSET BuildPool : Cardinality(d) <= MaxFiles }

BuildPaths == BuildPool \cup {F_RA, F_XEjs, B_tplY, B_Y}

InitBuild ==
  /\ InferIdle
  /\ LedgerIdle
  /\ RemoveIdle
  /\ DiscoverIdle
  /\ ParseIdle
  /\ InterpIdle
  /\ ResolveIdle
  /\ AddIdle
  /\ skillDir \in BuildDirs
  /\ listing \in Listings(skillDir)
  /\ dryRun = FALSE
  /\ outputDir = [q \in BuildPaths |-> IF q \in skillDir THEN Source(q) ELSE Absent]
  /\ templateTargets = {}
  /\ renderedFiles = <<>>
  /\ pending = <<>>
  /\ renderPc = "start"
  /\ earlier = <<>>

\* const templateFiles = collectFiles(skillzDir, ".ejs")
BuildCollectTemplates ==
  /\ renderPc = "start"
  /\ pending' = Kept(listing, collectFiles(skillDir, P_skillz, P_ejs))
  /\ renderedFiles' = <<>>
  /\ renderPc' = "templates"
  /\ UNCHANGED <<skillDir, listing, outputDir, earlier>>
  /\ UNCHANGED buildOthers

\* one pass of the loop: render the template, write it below skillDir
BuildTemplateWritten ==
  /\ renderPc = "templates"
  /\ pending # <<>>
  /\ LET templatePath == Head(pending)
         target == TargetOf(templatePath) IN
       /\ outputDir' = [outputDir EXCEPT
                          ![target] = BuiltFrom(templatePath, outputDir[templatePath])]
       /\ skillDir' = skillDir \cup {target}
       /\ listing' = IF target \in skillDir THEN listing ELSE Append(listing, target)
       /\ renderedFiles' = Append(renderedFiles, target)
       /\ pending' = Tail(pending)
  /\ UNCHANGED <<renderPc, earlier>>
  /\ UNCHANGED buildOthers

\* renderTemplate throws 'Failed to render template'
BuildTemplateThrows ==
  /\ renderPc = "templates"
  /\ pending # <<>>
  /\ renderPc' = "threw"
  /\ UNCHANGED <<skillDir, listing, outputDir, renderedFiles, pending, earlier>>
  /\ UNCHANGED buildOthers

\* return renderedFiles
BuildReturn ==
  /\ renderPc = "templates"
  /\ pending = <<>>
  /\ earlier' = Append(earlier, [files |-> renderedFiles, tree |-> outputDir])
  /\ renderPc' = "returned"
  /\ UNCHANGED <<skillDir, listing, outputDir, renderedFiles, pending>>
  /\ UNCHANGED buildOthers

\* the build command is run again on the same directory
BuildAgain ==
  /\ renderPc = "returned"
  /\ Len(earlier) < MaxBuilds
  /\ renderPc' = "start"
  /\ UNCHANGED <<skillDir, listing, outputDir, renderedFiles, pending, earlier>>
  /\ UNCHANGED buildOthers

NextBuild ==
  \/ BuildCollectTemplates
  \/ BuildTemplateWritten
  \/ BuildTemplateThrows
  \/ BuildReturn
  \/ BuildAgain

SpecBuild == InitBuild /\ [][NextBuild]_vars

\* --- Properties of renderWithDefaults -------------------------------------
SameAsFirstRun(n) ==
  /\ earlier[n].files = earlier[1].files
  /\ \A i \in DOMAIN earlier[1].files :
       earlier[n].tree[earlier[1].files[i]] = earlier[1].tree[earlier[1].files[i]]

\* C16: a second run of renderWithDefaults on the directory the first run
\* left returns the same path list and writes the same contents to them.
C16_SecondBuildSameAsFirst ==
  \A n \in DOMAIN earlier : SameAsFirstRun(n)

\* C16 holds for a bundle none of whose templates lies in a directory named
\* .skillz inside the customization directory.
C16_HoldsWithoutNestedCustomizationDir ==
  \A n \in DOMAIN earlier :
    (\A i \in DOMAIN earlier[1].files : ~StartsWith(earlier[1].files[i], P_skillz))
      => SameAsFirstRun(n)

(***************************************************************************)
(* parseSkillConfig (lib/config.ts): parseMeta, then parseVariables over   *)
(* the entries of the document's variables block, parseChoiceOptions for a *)
(* choice entry.  A raw option and a raw entry are what the TOML parser    *)
(* hands over, before any check.                                           *)
(***************************************************************************)
MaxEntries == 2

NoError == [kind |-> "none", variable |-> <<>>, field |-> "none", index |-> 0]

\* new Error(...) with what its message names
Error(kind, variable, field, index) ==
  [kind |-> kind, variable |-> variable, field |-> field, index |-> index]

\* One element of an options array: an object or not, its value and label.
RawOption(object, value, label) == [object |-> object, value |-> value, label |-> label]

GoodOption == RawOption(TRUE, StrV(<<"x">>), StrV(<<"X">>))
ScalarOption == RawOption(FALSE, Undefined, Undefined)
OptionNoValue == RawOption(TRUE, Undefined, StrV(<<"X">>))
OptionNoLabel == RawOption(TRUE, StrV(<<"x">>), BoolV(TRUE))

\* varDef.options: an array of raw options, or something else
RawOptions(isArray, items) == [isArray |-> isArray, items |-> items]

NoOptions == RawOptions(FALSE, <<>>)

OptionInputs ==
  { NoOptions,
    RawOptions(TRUE, <<>>),
    RawOptions(TRUE, <<GoodOption>>),
    RawOptions(TRUE, <<GoodOption, ScalarOption>>),
    RawOptions(TRUE, <<OptionNoValue>>),
    RawOptions(TRUE, <<GoodOption, OptionNoLabel>>) }

\* The value of one key of the variables block: a table with its type,
\* prompt and options fields ("" and <<>> when the field is absent or
\* empty), or a scalar.
RawEntry(table, type, prompt, options) ==
  [table |-> table, type |-> type, prompt |-> prompt, options |-> options]

EntryInputs ==
  { RawEntry(FALSE, "", <<>>, NoOptions),
    RawEntry(TRUE, "", <<"p">>, NoOptions),
    RawEntry(TRUE, "string", <<>>, NoOptions),
    RawEntry(TRUE, "string", <<"p">>, NoOptions),
    RawEntry(TRUE, "enum", <<"p">>, NoOptions) }
  \cup { RawEntry(TRUE, "choice", <<"p">>, o) : o \in OptionInputs }

EntryKeys == {K_A, K_B, K_CH}

\* Object.entries(variables): distinct keys, in document order.
VariableBlocks ==
  UNION { { b \in [1..n -> [key : EntryKeys, raw : EntryInputs]] :
              \A i, j \in 1..n : i # j => b[i].key # b[j].key } : n \in 0..MaxEntries }

\* What parseChoiceOptions does at one index: the first failing test throws.
OptionError(opt, index, varName) ==
  IF ~opt.object THEN Error("invalid-option", varName, "none", index)
  ELSE IF opt.value.t # "string" THEN Error("option-missing", varName, "value", index)
  ELSE IF opt.label.t # "string" THEN Error("option-missing", varName, "label", index)
  ELSE NoError

\* parseChoiceOptions(options, varName): [error, options]; options.map stops
\* at the first index that throws.  Indexes are those of the code plus one.
parseChoiceOptions(options, varName) ==
  IF ~options.isArray
  THEN [error |-> Error("missing-options", varName, "options", 0), options |-> <<>>]
  ELSE LET bad == {i \in DOMAIN options.items :
                     OptionError(options.items[i], i, varName) # NoError} IN
    IF bad # {}
    THEN LET first == CHOOSE i \in bad : \A j \in bad : i <= j IN
           [error |-> OptionError(options.items[first], first, varName), options |-> <<>>]
    ELSE [error |-> NoError,
          options |-> [i \in DOMAIN options.items |->
                         Opt(options.items[i].value.s, options.items[i].label.s)]]

\* The body of parseVariables' loop for a table entry: [error, variable].
parseEntry(key, varDef) ==
  IF varDef.type = ""
  THEN [error |-> Error("missing-field", key, "type", 0), variable |-> NoValue]
  ELSE IF varDef.prompt = <<>>
  THEN [error |-> Error("missing-field", key, "prompt", 0), variable |-> NoValue]
  ELSE IF varDef.type \in {"string", "boolean", "array"}
  THEN [error |-> NoError, variable |-> Var(key, varDef.type, varDef.prompt, NoValue, <<>>)]
  ELSE IF varDef.type = "choice"
  THEN LET parsed == parseChoiceOptions(varDef.options, key) IN
         [error |-> parsed.error,
          variable |-> Var(key, "choice", varDef.prompt, NoValue, parsed.options)]
  ELSE [error |-> Error("unknown-type", key, "type", 0), variable |-> NoValue]

InitParse ==
  /\ InferIdle
  /\ LedgerIdle
  /\ RemoveIdle
  /\ DiscoverIdle
  /\ InterpIdle
  /\ ResolveIdle
  /\ AddIdle
  /\ RenderIdle
  /\ pdoc \in [meta : BOOLEAN, variables : VariableBlocks]
  /\ pidx = 1
  /\ presult = <<>>
  /\ perror = NoError
  /\ ppc = "meta"

\* parseMeta: the [meta] section is there and has a name
ParseMetaReturns ==
  /\ ppc = "meta" /\ pdoc.meta
  /\ ppc' = "variables"
  /\ UNCHANGED <<pdoc, pidx, presult, perror>>
  /\ UNCHANGED parseOthers

\* parseMeta throws
ParseMetaThrows ==
  /\ ppc = "meta" /\ ~pdoc.meta
  /\ perror' = Error("missing-meta", <<>>, "meta", 0)
  /\ ppc' = "threw"
  /\ UNCHANGED <<pdoc, pidx, presult>>
  /\ UNCHANGED parseOthers

\* if (typeof value !== 'object' || value === null) continue
ParseEntrySkipped ==
  /\ ppc = "variables" /\ pidx <= Len(pdoc.variables)
  /\ ~pdoc.variables[pidx].raw.table
  /\ pidx' = pidx + 1
  /\ UNCHANGED <<pdoc, presult, perror, ppc>>
  /\ UNCHANGED parseOthers

\* a throw in the loop body or in parseChoiceOptions
ParseEntryThrows ==
  /\ ppc = "variables" /\ pidx <= Len(pdoc.variables)
  /\ pdoc.variables[pidx].raw.table
  /\ LET parsed == parseEntry(pdoc.variables[pidx].key, pdoc.variables[pidx].raw) IN
       /\ parsed.error # NoError
       /\ perror' = parsed.error
  /\ ppc' = "threw"
  /\ UNCHANGED <<pdoc, pidx, presult>>
  /\ UNCHANGED parseOthers

\* result[key] = {...}
ParseEntryProduced ==
  /\ ppc = "variables" /\ pidx <= Len(pdoc.variables)
  /\ pdoc.variables[pidx].raw.table
  /\ LET parsed == parseEntry(pdoc.variables[pidx].key, pdoc.variables[pidx].raw) IN
       /\ parsed.error = NoError
       /\ presult' = Append(presult, parsed.variable)
  /\ pidx' = pidx + 1
  /\ UNCHANGED <<pdoc, perror, ppc>>
  /\ UNCHANGED parseOthers

\* return { meta, variables }
ParseReturn ==
  /\ ppc = "variables" /\ pidx > Len(pdoc.variables)
  /\ ppc' = "returned"
  /\ UNCHANGED <<pdoc, pidx, presult, perror>>
  /\ UNCHANGED parseOthers

NextParse ==
  \/ ParseMetaReturns
  \/ ParseMetaThrows
  \/ ParseEntrySkipped
  \/ ParseEntryThrows
  \/ ParseEntryProduced
  \/ ParseReturn

SpecParse == InitParse /\ [][NextParse]_vars

Produced(key) == \E n \in DOMAIN presult : presult[n].name = key

\* C22: every entry of the variables block either becomes a Variable of the
\* returned Schema, or parsing fails with an error that names that entry's
\* variable (and, when its type or prompt is missing, that field); no entry
\* without a type or a prompt is accepted or dropped in silence.
C22_EveryEntryProducedOrReported ==
  /\ ppc = "returned" =>
       \A i \in DOMAIN pdoc.variables :
         /\ Produced(pdoc.variables[i].key)
         /\ pdoc.variables[i].raw.type # "" /\ pdoc.variables[i].raw.prompt # <<>>
  /\ (ppc = "threw" /\ perror.kind # "missing-meta") =>
       /\ perror.variable = pdoc.variables[pidx].key
       /\ pdoc.variables[pidx].raw.type = ""
            => perror.kind = "missing-field" /\ perror.field = "type"
       /\ (pdoc.variables[pidx].raw.type # "" /\ pdoc.variables[pidx].raw.prompt = <<>>)
            => perror.kind = "missing-field" /\ perror.field = "prompt"

\* What does hold: the same, for the entries that are tables.
C22_HoldsForTableEntries ==
  /\ ppc = "returned" =>
       \A i \in DOMAIN pdoc.variables :
         pdoc.variables[i].raw.table =>
           /\ Produced(pdoc.variables[i].key)
           /\ pdoc.variables[i].raw.type # "" /\ pdoc.variables[i].raw.prompt # <<>>
  /\ (ppc = "threw" /\ perror.kind # "missing-meta") =>
       /\ perror.variable = pdoc.variables[pidx].key
       /\ pdoc.variables[pidx].raw.type = ""
            => perror.kind = "missing-field" /\ perror.field = "type"
       /\ (pdoc.variables[pidx].raw.type # "" /\ pdoc.variables[pidx].raw.prompt = <<>>)
            => perror.kind = "missing-field" /\ perror.field = "prompt"

\* Options as the document should give them: an array, not empty, each
\* element an object with a string value and a string label.
WellFormedOptions(options) ==
  /\ options.isArray
  /\ options.items # <<>>
  /\ \A i \in DOMAIN options.items :
       /\ options.items[i].object
       /\ options.items[i].value.t = "string"
       /\ options.items[i].label.t = "string"

ChoiceEntries == {i \in DOMAIN pdoc.variables : pdoc.variables[i].raw.type = "choice"}

\* C23: every choice variable of a returned Schema has at least one option,
\* and a document whose choice entry has missing, empty or malformed options
\* does not parse: it fails with an error naming the variable.
C23_ChoiceOptionsNonEmptyOrError ==
  /\ ppc = "returned" =>
       /\ \A n \in DOMAIN presult :
            presult[n].type = "choice" => Len(presult[n].options) > 0
       /\ \A i \in ChoiceEntries :
            pdoc.variables[i].raw.table => WellFormedOptions(pdoc.variables[i].raw.options)
  /\ (ppc = "threw" /\ perror.kind \in {"missing-options", "invalid-option", "option-missing"})
       => perror.variable = pdoc.variables[pidx].key

\* What does hold: an options field that is not an array, or that has an
\* element that is not an object with string value and label, is reported
\* with the variable's name and the element's index.
C23_HoldsForMissingOrMalformed ==
  /\ ppc = "returned" =>
       \A i \in ChoiceEntries :
         pdoc.variables[i].raw.table =>
           \/ WellFormedOptions(pdoc.variables[i].raw.options)
           \/ pdoc.variables[i].raw.options = RawOptions(TRUE, <<>>)
  /\ (ppc = "threw" /\ perror.kind \in {"missing-options", "invalid-option", "option-missing"})
       => /\ perror.variable = pdoc.variables[pidx].key
          /\ perror.kind # "missing-options"
               => OptionError(pdoc.variables[pidx].raw.options.items[perror.index],
                              perror.index, perror.variable) = perror

(***************************************************************************)
(* discoverSkills (lib/discovery.ts).  A directory is the sequence of the  *)
(* entry names that lead to it from repoDir; the tree is given by the      *)
(* directories that hold a SKILL.md, together with their ancestors.        *)
(***************************************************************************)
MaxDepth == 2

D_git == <<".", "g", "i", "t">>
D_hidden == <<".", "h">>
D_a == <<"a">>

EntryNames == {D_a, P_nodeModules, D_hidden, P_skillz}

Directories == UNION { [1..n -> EntryNames] : n \in 0..MaxDepth }

IsAncestor(a, d) == Len(a) < Len(d) /\ SubSeq(d, 1, Len(a)) = a

\* the directories of the tree
Tree(roots) == roots \cup {a \in Directories : \E d \in roots : IsAncestor(a, d)}

\* the subdirectories readdirSync(dir) lists
Subdirectories(dir, roots) ==
  {d \in Tree(roots) : Len(d) = Len(dir) + 1 /\ IsAncestor(dir, d)}

\* entry === 'node_modules' || entry === '.git' ||
\* (entry.startsWith('.') && entry !== '.skillz')
SkippedEntry(entry) ==
  \/ entry = P_nodeModules
  \/ entry = D_git
  \/ (StartsWith(entry, P_dot) /\ entry # P_skillz)

\* The trees: no directory, one or two hold a SKILL.md.
MarkedSets == {{}} \cup { {d, e} : d \in Directories, e \in Directories }

InitDiscover ==
  /\ InferIdle
  /\ LedgerIdle
  /\ RemoveIdle
  /\ InterpIdle
  /\ ResolveIdle
  /\ AddIdle
  /\ RenderIdle
  /\ ParseIdle
  /\ marked \in MarkedSets
  /\ visiting = << <<>> >>
  /\ dskills = <<>>
  /\ dpc = "running"

\* A plausible slip: a found skill is recorded and the walk still descends.
TraverseFoundAndDescends ==
  /\ dpc = "running" /\ visiting # <<>>
  /\ Head(visiting) \in marked
  /\ dskills' = Append(dskills, Head(visiting))
  /\ \E order \in Listings({d \in Subdirectories(Head(visiting), marked) :
                              ~SkippedEntry(d[Len(d)])}) :
       visiting' = order \o Tail(visiting)
  /\ UNCHANGED <<marked, dpc>>
  /\ UNCHANGED discoverOthers

\* existsSync(join(dir, 'SKILL.md')): skills.push(...); return
TraverseFound ==
  /\ dpc = "running" /\ visiting # <<>>
  /\ Head(visiting) \in marked
  /\ dskills' = Append(dskills, Head(visiting))
  /\ visiting' = Tail(visiting)
  /\ UNCHANGED <<marked, dpc>>
  /\ UNCHANGED discoverOthers

\* no SKILL.md: traverseDirectory on every subdirectory that is not skipped,
\* in readdirSync's order, depth first
TraverseDescend ==
  /\ dpc = "running" /\ visiting # <<>>
  /\ Head(visiting) \notin marked
  /\ \E order \in Listings({d \in Subdirectories(Head(visiting), marked) :
                              ~SkippedEntry(d[Len(d)])}) :
       visiting' = order \o Tail(visiting)
  /\ UNCHANGED <<marked, dskills, dpc>>
  /\ UNCHANGED discoverOthers

\* return skills
DiscoverReturn ==
  /\ dpc = "running" /\ visiting = <<>>
  /\ dpc' = "returned"
  /\ UNCHANGED <<marked, visiting, dskills>>
  /\ UNCHANGED discoverOthers

NextDiscover ==
  \/ TraverseFound
  \/ TraverseDescend
  \/ DiscoverReturn

SpecDiscover == InitDiscover /\ [][NextDiscover]_vars

Returned == {dskills[i] : i \in DOMAIN dskills}

\* a directory with SKILL.md none of whose proper ancestors has one
BundleRoots == {d \in marked : \A a \in marked : ~IsAncestor(a, d)}

Agents == {"cursor", "claude-code", "windsurf"}

InitRemove ==
  /\ InferIdle
  /\ LedgerIdle
  /\ InterpIdle
  /\ ResolveIdle
  /\ AddIdle
  /\ RenderIdle
  /\ ParseIdle
  /\ DiscoverIdle
  /\ detectedAgents \in SUBSET Agents
  /\ entries \in [Agents -> BOOLEAN]
  /\ installedDirs \in [Agents -> BOOLEAN]
  /\ toRemove = {}
  /\ selected = "none"
  /\ confirm = "none"
  /\ rmpc = "start"

\* the agents whose getInstalledSkills has an entry of that name
agentsWithSkill == {a \in detectedAgents : entries[a]}

\* detectedAgents.length === 0: process.exit(1)
RemoveNoAgents ==
  /\ rmpc = "start" /\ detectedAgents = {}
  /\ rmpc' = "exited"
  /\ UNCHANGED <<detectedAgents, entries, installedDirs, toRemove, selected, confirm>>
  /\ UNCHANGED removeOthers

\* agentsWithSkill.length === 0: process.exit(1)
RemoveNotInstalled ==
  /\ rmpc = "start" /\ detectedAgents # {} /\ agentsWithSkill = {}
  /\ rmpc' = "exited"
  /\ UNCHANGED <<detectedAgents, entries, installedDirs, toRemove, selected, confirm>>
  /\ UNCHANGED removeOthers

\* agentsWithSkill.length === 1: targetAgent = agentsWithSkill[0]
RemoveSingleTarget ==
  /\ rmpc = "start" /\ Cardinality(agentsWithSkill) = 1
  /\ toRemove' = agentsWithSkill
  /\ rmpc' = "confirm"
  /\ UNCHANGED <<detectedAgents, entries, installedDirs, selected, confirm>>
  /\ UNCHANGED removeOthers

\* p.select answered with one agent
RemoveSelectOne ==
  /\ rmpc = "start" /\ Cardinality(agentsWithSkill) > 1
  /\ \E a \in agentsWithSkill : toRemove' = {a}
  /\ selected' = "one"
  /\ rmpc' = "confirm"
  /\ UNCHANGED <<detectedAgents, entries, installedDirs, confirm>>
  /\ UNCHANGED removeOthers

\* p.select cancelled: 'Removal cancelled.', return
RemoveSelectCancelled ==
  /\ rmpc = "start" /\ Cardinality(agentsWithSkill) > 1
  /\ selected' = "cancel"
  /\ rmpc' = "returned"
  /\ UNCHANGED <<detectedAgents, entries, installedDirs, toRemove, confirm>>
  /\ UNCHANGED removeOthers

\* p.select answered 'all': removeSingleSkill for every agent, then return
RemoveSelectAll ==
  /\ rmpc = "start" /\ Cardinality(agentsWithSkill) > 1
  /\ selected' = "all"
  /\ toRemove' = agentsWithSkill
  /\ rmpc' = "removing"
  /\ UNCHANGED <<detectedAgents, entries, installedDirs, confirm>>
  /\ UNCHANGED removeOthers

\* p.confirm answered yes
RemoveConfirmed ==
  /\ rmpc = "confirm"
  /\ confirm' = "yes"
  /\ rmpc' = "removing"
  /\ UNCHANGED <<detectedAgents, entries, installedDirs, toRemove, selected>>
  /\ UNCHANGED removeOthers

\* p.isCancel(confirm) || !confirm: 'Removal cancelled.', return
RemoveNotConfirmed ==
  /\ rmpc = "confirm"
  /\ confirm' \in {"no", "cancel"}
  /\ rmpc' = "returned"
  /\ UNCHANGED <<detectedAgents, entries, installedDirs, toRemove, selected>>
  /\ UNCHANGED removeOthers

\* removeSingleSkill(skillName, agent): rmSync of the skill directory when it
\* exists, then removeSkillFromMetadata
RemoveSingleSkill ==
  /\ rmpc = "removing"
  /\ \E agent \in toRemove :
       /\ installedDirs' = [installedDirs EXCEPT ![agent] = FALSE]
       /\ entries' = [entries EXCEPT ![agent] = FALSE]
       /\ toRemove' = toRemove \ {agent}
  /\ UNCHANGED <<detectedAgents, selected, confirm, rmpc>>
  /\ UNCHANGED removeOthers

\* rmSync throws: 'Failed to remove skill directory', nothing catches it
RemoveSingleSkillThrows ==
  /\ rmpc = "removing"
  /\ \E agent \in toRemove : installedDirs[agent]
  /\ rmpc' = "threw"
  /\ UNCHANGED <<detectedAgents, entries, installedDirs, toRemove, selected, confirm>>
  /\ UNCHANGED removeOthers

\* every removeSingleSkill returned: p.log.success, return
RemoveReturn ==
  /\ rmpc = "removing" /\ toRemove = {}
  /\ rmpc' = "returned"
  /\ UNCHANGED <<detectedAgents, entries, installedDirs, toRemove, selected, confirm>>
  /\ UNCHANGED removeOthers

NextRemove ==
  \/ RemoveNoAgents
  \/ RemoveNotInstalled
  \/ RemoveSingleTarget
  \/ RemoveSelectOne
  \/ RemoveSelectCancelled
  \/ RemoveSelectAll
  \/ RemoveConfirmed
  \/ RemoveNotConfirmed
  \/ RemoveSingleSkill
  \/ RemoveSingleSkillThrows
  \/ RemoveReturn

SpecRemove == InitRemove /\ [][NextRemove]_vars

\* C27: a skill directory or a ledger entry is deleted only after the
\* 'Remove skill ...?' confirmation was answered yes, and after a cancel or a
\* decline at any prompt nothing is deleted.
C27_DeleteOnlyAfterConfirmedYes ==
  [][(installedDirs' # installedDirs \/ entries' # entries) => confirm = "yes"]_vars

\* What does hold: once a prompt was cancelled or the confirmation declined,
\* nothing is deleted.
C27_HoldsAfterCancelOrDecline ==
  [][(selected = "cancel" \/ confirm \in {"no", "cancel"})
       => (installedDirs' = installedDirs /\ entries' = entries)]_vars

(***************************************************************************)
(* The metadata ledger (lib/metadata.ts): readMetadata, writeMetadata,     *)
(* recordInstalledSkill and removeSkillFromMetadata called in any order on *)
(* one metadata file.                                                      *)
(***************************************************************************)
MaxCalls == 3

\* readMetadata: the skills of the file, none when the file is missing
readMetadata(file) == IF file.exists THEN file.skills ELSE <<>>

\* metadata.skills.filter((s) => s.name !== name)
WithoutName(entries_, name) == SelectSeq(entries_, LAMBDA e : e.name # name)

HasEntry(entries_, name) == \E i \in DOMAIN entries_ : entries_[i].name = name

\* The ledgers a run can start from: entries with pairwise distinct names.
StartLedgers ==
  { <<>> }
  \cup { <<[name |-> n, customized |-> FALSE, by |-> "old"]>> : n \in SkillNames }
  \cup { <<[name |-> pair[1], customized |-> FALSE, by |-> "old"],
           [name |-> pair[2], customized |-> TRUE, by |-> "old"]>> :
           pair \in {q \in SkillNames \X SkillNames : q[1] # q[2]} }

InitLedger ==
  /\ InferIdle
  /\ InterpIdle
  /\ ResolveIdle
  /\ AddIdle
  /\ RenderIdle
  /\ ParseIdle
  /\ DiscoverIdle
  /\ RemoveIdle
  /\ metadataFile \in { [exists |-> FALSE, skills |-> <<>>] }
                        \cup { [exists |-> TRUE, skills |-> l] : l \in StartLedgers }
  /\ writes = 0
  /\ lastCall = [fn |-> "none", name |-> "", found |-> FALSE, returned |-> FALSE]
  /\ ncalls = 0

\* recordInstalledSkill(name, source, customized, ...): read, filter, push, write
LedgerRecord ==
  /\ ncalls < MaxCalls
  /\ \E name \in SkillNames, customized \in BOOLEAN :
       LET before == readMetadata(metadataFile) IN
         /\ metadataFile' = [exists |-> TRUE,
                             skills |-> recordInstalledSkill(before, name, customized,
                                                             "new")]
         /\ lastCall' = [fn |-> "record", name |-> name,
                         found |-> HasEntry(before, name), returned |-> TRUE]
  /\ writes' = writes + 1
  /\ ncalls' = ncalls + 1
  /\ UNCHANGED ledgerOthers

\* removeSkillFromMetadata(name) when the filter dropped something: write, true
LedgerRemoveFound ==
  /\ ncalls < MaxCalls
  /\ \E name \in SkillNames :
       LET before == readMetadata(metadataFile) IN
         /\ Len(WithoutName(before, name)) # Len(before)
         /\ metadataFile' = [exists |-> TRUE, skills |-> WithoutName(before, name)]
         /\ lastCall' = [fn |-> "remove", name |-> name, found |-> TRUE, returned |-> TRUE]
  /\ writes' = writes + 1
  /\ ncalls' = ncalls + 1
  /\ UNCHANGED ledgerOthers

\* removeSkillFromMetadata(name) when the count is unchanged: return false
LedgerRemoveNotFound ==
  /\ ncalls < MaxCalls
  /\ \E name \in SkillNames :
       LET before == readMetadata(metadataFile) IN
         /\ Len(WithoutName(before, name)) = Len(before)
         /\ lastCall' = [fn |-> "remove", name |-> name, found |-> FALSE, returned |-> FALSE]
  /\ ncalls' = ncalls + 1
  /\ UNCHANGED <<metadataFile, writes>>
  /\ UNCHANGED ledgerOthers

NextLedger ==
  \/ LedgerRecord
  \/ LedgerRemoveFound
  \/ LedgerRemoveNotFound

SpecLedger == InitLedger /\ [][NextLedger]_vars

EntriesNamed(entries_, name) == {i \in DOMAIN entries_ : entries_[i].name = name}

\* C28: the ledger never has two entries of one name; recordInstalledSkill(N)
\* leaves exactly one entry for N, the new one, and keeps the other entries;
\* removeSkillFromMetadata(N) for a name that is not in the ledger returns
\* false and writes nothing.
C28_OneEntryPerName ==
  /\ [](\A n \in SkillNames : Cardinality(EntriesNamed(metadataFile.skills, n)) <= 1)
  /\ [][/\ lastCall'.fn = "record" =>
            /\ Cardinality(EntriesNamed(metadataFile'.skills, lastCall'.name)) = 1
            /\ \A i \in EntriesNamed(metadataFile'.skills, lastCall'.name) :
                 metadataFile'.skills[i].by = "new"
            /\ WithoutName(metadataFile'.skills, lastCall'.name)
                 = WithoutName(readMetadata(metadataFile), lastCall'.name)
        /\ (lastCall'.fn = "remove"
              /\ ~HasEntry(readMetadata(metadataFile), lastCall'.name)) =>
            /\ ~lastCall'.returned
            /\ metadataFile' = metadataFile
            /\ writes' = writes]_vars

\* C28 witness: a remove call for a name that is not in the ledger wrote
\* nothing, and the record call after it replaced the entry of its name.
C28_WitnessMissedThenReplaced ==
  /\ lastCall.fn = "record" /\ lastCall.found
  /\ ncalls = 2 /\ writes = 1
  /\ Len(metadataFile.skills) = 1 /\ metadataFile.skills[1].by = "new"

(***************************************************************************)
(* The infer-config helper (scripts/infer-config.js) and an install that   *)
(* takes the answers file it writes as --config.                           *)
(***************************************************************************)

UpperToLower ==
  [c \in {"A","B","C","H","L","M","N","O","P","R","S","X","Y"} |->
     CASE c = "A" -> "a" [] c = "B" -> "b" [] c = "C" -> "c" [] c = "H" -> "h"
       [] c = "L" -> "l" [] c = "M" -> "m" [] c = "N" -> "n" [] c = "O" -> "o"
       [] c = "P" -> "p" [] c = "R" -> "r" [] c = "S" -> "s" [] c = "X" -> "x"
       [] c = "Y" -> "y"]

\* String.prototype.toLowerCase
toLowerCase(s) ==
  [i \in DOMAIN s |-> IF s[i] \in DOMAIN UpperToLower THEN UpperToLower[s[i]] ELSE s[i]]

\* JavaScript truthiness of a value
Truthy(value) ==
  CASE value.t = "string"    -> value.s # <<>>
    [] value.t = "boolean"   -> value.b
    [] value.t = "undefined" -> FALSE
    [] OTHER                 -> TRUE

\* matchChoiceOption: the indexes of the options whose value or label equals
\* the inferred value, case-insensitively; `find` takes the first
MatchingOptions(options, value) ==
  IF ~Truthy(value) THEN {}
  ELSE { i \in DOMAIN options :
           \/ toLowerCase(options[i].value) = toLowerCase(StringOf(value))
           \/ toLowerCase(options[i].label) = toLowerCase(StringOf(value)) }

Least(S) == CHOOSE i \in S : \A j \in S : i <= j

\* resolveValue(varName, variable, inferred)
resolveValue(variable, inferredValue) ==
  CASE variable.type = "choice" ->
         IF MatchingOptions(variable.options, inferredValue) # {}
         THEN StrV(variable.options[Least(MatchingOptions(variable.options, inferredValue))].value)
         ELSE IF Truthy(variable.default) THEN variable.default
         ELSE IF Len(variable.options) > 0 THEN StrV(variable.options[1].value)
         ELSE StrV(<<>>)
    [] variable.type = "boolean" ->
         IF inferredValue.t = "boolean" THEN inferredValue
         ELSE IF variable.default.t = "boolean" THEN variable.default
         ELSE BoolV(FALSE)
    [] variable.type = "array" ->
         IF inferredValue.t = "array" THEN inferredValue
         ELSE IF variable.default.t = "array" THEN variable.default
         ELSE IF inferredValue.t = "string" /\ inferredValue.s # <<>>
              THEN ArrV(<<inferredValue.s>>)
         ELSE ArrV(<<>>)
    [] OTHER ->
         IF inferredValue.t = "string" /\ inferredValue.s # <<>> THEN inferredValue
         ELSE IF variable.default.t # "undefined" THEN StrV(StringOf(variable.default))
         ELSE StrV(<<>>)

\* String.prototype.replace(/"/g, '\\"')
RECURSIVE EscapeQuotes(_)
EscapeQuotes(s) ==
  IF s = <<>> THEN <<>>
  ELSE (IF Head(s) = "\"" THEN <<"\\", "\"">> ELSE <<Head(s)>>) \o EscapeQuotes(Tail(s))

\* The text between the quotes of a TOML basic string, read back: a
\* backslash makes the character after it literal.
RECURSIVE Unescape(_)
Unescape(s) ==
  IF s = <<>> THEN <<>>
  ELSE IF Head(s) = "\\" /\ Len(s) > 1 THEN <<s[2]>> \o Unescape(Tail(Tail(s)))
  ELSE <<Head(s)>> \o Unescape(Tail(s))

\* toTomlValue(value): the right-hand side of one line of answers.toml,
\* kept as its kind and the text of its quoted strings
toTomlValue(value) ==
  CASE value.t = "array" ->
         [kind |-> "array", quoted |-> [i \in DOMAIN value.a |-> EscapeQuotes(value.a[i])],
          word |-> FALSE]
    [] value.t = "boolean" -> [kind |-> "boolean", quoted |-> <<>>, word |-> value.b]
    [] OTHER -> [kind |-> "string", quoted |-> <<EscapeQuotes(StringOf(value))>>,
                 word |-> FALSE]

\* parsePresetConfig: the value the installer reads from one line
parsePresetValue(rhs) ==
  CASE rhs.kind = "array"   -> ArrV([i \in DOMAIN rhs.quoted |-> Unescape(rhs.quoted[i])])
    [] rhs.kind = "boolean" -> BoolV(rhs.word)
    [] OTHER                -> StrV(Unescape(rhs.quoted[1]))

\* parsePresetConfig(configPath) of the written file
parsePresetConfig(lines) ==
  [k \in {lines[i].key : i \in DOMAIN lines} |->
     parsePresetValue((CHOOSE l \in {lines[i] : i \in DOMAIN lines} : l.key = k).rhs)]

\* getDefaultValues(config, presetValues), the whole loop
RECURSIVE DefaultsFrom(_, _, _, _)
DefaultsFrom(config, preset, i, sofar) ==
  IF i > Len(config) THEN sofar
  ELSE DefaultsFrom(config, preset, i + 1,
         IF UsesPreset(preset, config[i].name)
         THEN Put(sofar, config[i].name, PresetValueFor(preset, config[i].name))
         ELSE IF config[i].default.t # "undefined"
              THEN Put(sofar, config[i].name, DefaultFor(config[i], sofar))
              ELSE sofar)

getDefaultValues(config, preset) == DefaultsFrom(config, preset, 1, EmptyObject)

\* signals the repository can give: nothing, a package manager, a label-cased
\* word, a flag
InferredValues == {Undefined, StrV(S_pnpm), StrV(<<"Y">>), BoolV(TRUE)}

InitInfer ==
  /\ InterpIdle
  /\ ResolveIdle
  /\ AddIdle
  /\ RenderIdle
  /\ ParseIdle
  /\ DiscoverIdle
  /\ RemoveIdle
  /\ LedgerIdle
  /\ schema \in Schemas
  /\ inferred \in [Names(schema) -> InferredValues]
  /\ answers = EmptyObject
  /\ answersFile = <<>>
  /\ installed = EmptyObject
  /\ infidx = 1
  /\ infpc = "inferring"

\* main: one iteration of `for (const varName of order)`
InferAnswer ==
  /\ infpc = "inferring" /\ infidx <= Len(schema)
  /\ answers' = Put(answers, schema[infidx].name,
                    resolveValue(schema[infidx], inferred[schema[infidx].name]))
  /\ infidx' = infidx + 1
  /\ UNCHANGED <<schema, inferred, answersFile, installed, infpc>>
  /\ UNCHANGED inferOthers

\* main: order.map(...) and writeFileSync(outPath, ...)
InferWriteFile ==
  /\ infpc = "inferring" /\ infidx > Len(schema)
  /\ answersFile' = [i \in DOMAIN schema |->
                       [key |-> schema[i].name, rhs |-> toTomlValue(answers[schema[i].name])]]
  /\ infpc' = "written"
  /\ UNCHANGED <<schema, inferred, answers, installed, infidx>>
  /\ UNCHANGED inferOthers

\* taito add --config answers.toml: the preset is the parsed file
InstallWithAnswers ==
  /\ infpc = "written"
  /\ installed' = getDefaultValues(schema, [given |-> TRUE,
                                            obj |-> parsePresetConfig(answersFile)])
  /\ infpc' = "installed"
  /\ UNCHANGED <<schema, inferred, answers, answersFile, infidx>>
  /\ UNCHANGED inferOthers

NextInfer == InferAnswer \/ InferWriteFile \/ InstallWithAnswers

SpecInfer == InitInfer /\ [][NextInfer]_vars

\* What default resolution gives variable `name` given the other answers
DefaultResolution(name) ==
  Get(getDefaultValues(schema,
        [given |-> TRUE,
         obj |-> [k \in (DOMAIN answers) \ {name} |-> answers[k]]]), name)

Uninferred(i) ==
  /\ inferred[schema[i].name].t = "undefined"
  /\ schema[i].default.t # "undefined"

\* C29: after an install with the generated answers file, every variable the
\* helper could not infer and that declares a default has the value that
\* default resolution gives it given the other answers.
C29_UninferredAnswerIsDefaultResolution ==
  infpc = "installed" =>
    \A i \in DOMAIN schema :
      Uninferred(i) => Get(installed, schema[i].name) = DefaultResolution(schema[i].name)

\* C29: the same holds for every such variable whose default holds no
\* reference.
C29_HoldsForDefaultsWithoutReferences ==
  infpc = "installed" =>
    \A i \in DOMAIN schema :
      (Uninferred(i) /\ ~Contains(StringOf(schema[i].default), <<"$", "{">>))
        => Get(installed, schema[i].name) = DefaultResolution(schema[i].name)


(***************************************************************************)
(* Nested references in interpolate.                                       *)
(***************************************************************************)

\* The matches template.replace takes, as <<start, end>> pairs: after a
\* match the scan resumes behind it.
RECURSIVE MatchesFrom(_, _)
MatchesFrom(s, i) ==
  IF i > Len(s) THEN {}
  ELSE LET j == MatchEnd(s, i) IN
         IF j = 0 THEN MatchesFrom(s, i + 1)
         ELSE {<<i, j>>} \cup MatchesFrom(s, j + 1)

\* Some ${NAME} token of the template is replaced by the value of `name`,
\* and that value holds a ${OTHER} token naming `other`, present in the
\* mapping with a value that holds no such token itself.
SubstitutedNested(name, other) ==
  /\ name \in DOMAIN ivalues /\ other \in DOMAIN ivalues
  /\ \E m \in MatchesFrom(itemplate, 1) :
       Trim(SubSeq(itemplate, m[1] + 2, m[2] - 1)) = name
  /\ ivalues[name].t = "string"
  /\ Contains(ivalues[name].s, Token(other))
  /\ ~Contains(StringOf(ivalues[other]), Token(other))

\* C30: when the value substituted for a ${NAME} token holds a ${OTHER}
\* token naming a variable of the mapping, the returned string holds no
\* literal ${OTHER} token.
C30_NestedReferenceExpanded ==
  (ipc = "done" /\ iwhich = "interpolate") =>
    \A name, other \in DOMAIN ivalues :
      SubstitutedNested(name, other) => ~Contains(iresult, Token(other))

\* C30: what the single replace pass returns in that case is the
\* substituted value as it is, its ${OTHER} token included.
C30_SubstitutedValueKeptLiterally ==
  (ipc = "done" /\ iwhich = "interpolate") =>
    \A name, other \in DOMAIN ivalues :
      SubstitutedNested(name, other) => Contains(iresult, ivalues[name].s)


====
